---- MODULE Spec2Model ----
(***************************************************************************)
(* A model of kukkii, a cookie helper: the name/value codec (parse,        *)
(* serialize), the signed codec (HMAC-SHA256), the sealed codec (the iron  *)
(* protocol) and the header facade (getCookie, setCookie, ...).            *)
(*                                                                         *)
(* A string is a sequence of characters; a character is the one-character  *)
(* string for printable ASCII and the token "<xx>" for any other code      *)
(* point up to U+00FF, so that character classes, percent-encoding and     *)
(* base64 are computed as the code computes them (the backquote is also   *)
(* written as a token, "<60>").  Code points above U+00FF are outside the  *)
(* modelled alphabet.                                                      *)
(***************************************************************************)
EXTENDS Integers, Sequences, FiniteSets, TLC

\* const x = v; and then Body, which reads x: v is computed once, before
\* Body is.
With(v, Body(_)) == CHOOSE r \in {Body(x) : x \in {v}} : TRUE

(***************************************************************************)
(* Characters                                                              *)
(***************************************************************************)

\* The code points 0..255 in order: Chr[cp + 1] is the character cp.
Chr ==
    <<
       "<00>", "<01>", "<02>", "<03>", "<04>", "<05>", "<06>", "<07>",
       "<08>", "<09>", "<0a>", "<0b>", "<0c>", "<0d>", "<0e>", "<0f>",
       "<10>", "<11>", "<12>", "<13>", "<14>", "<15>", "<16>", "<17>",
       "<18>", "<19>", "<1a>", "<1b>", "<1c>", "<1d>", "<1e>", "<1f>",
       " ", "!", "\"", "#", "$", "%", "&", "'",
       "(", ")", "*", "+", ",", "-", ".", "/",
       "0", "1", "2", "3", "4", "5", "6", "7",
       "8", "9", ":", ";", "<", "=", ">", "?",
       "@", "A", "B", "C", "D", "E", "F", "G",
       "H", "I", "J", "K", "L", "M", "N", "O",
       "P", "Q", "R", "S", "T", "U", "V", "W",
       "X", "Y", "Z", "[", "\\", "]", "^", "_",
       "<60>", "a", "b", "c", "d", "e", "f", "g",
       "h", "i", "j", "k", "l", "m", "n", "o",
       "p", "q", "r", "s", "t", "u", "v", "w",
       "x", "y", "z", "{", "|", "}", "~", "<7f>",
       "<80>", "<81>", "<82>", "<83>", "<84>", "<85>", "<86>", "<87>",
       "<88>", "<89>", "<8a>", "<8b>", "<8c>", "<8d>", "<8e>", "<8f>",
       "<90>", "<91>", "<92>", "<93>", "<94>", "<95>", "<96>", "<97>",
       "<98>", "<99>", "<9a>", "<9b>", "<9c>", "<9d>", "<9e>", "<9f>",
       "<a0>", "<a1>", "<a2>", "<a3>", "<a4>", "<a5>", "<a6>", "<a7>",
       "<a8>", "<a9>", "<aa>", "<ab>", "<ac>", "<ad>", "<ae>", "<af>",
       "<b0>", "<b1>", "<b2>", "<b3>", "<b4>", "<b5>", "<b6>", "<b7>",
       "<b8>", "<b9>", "<ba>", "<bb>", "<bc>", "<bd>", "<be>", "<bf>",
       "<c0>", "<c1>", "<c2>", "<c3>", "<c4>", "<c5>", "<c6>", "<c7>",
       "<c8>", "<c9>", "<ca>", "<cb>", "<cc>", "<cd>", "<ce>", "<cf>",
       "<d0>", "<d1>", "<d2>", "<d3>", "<d4>", "<d5>", "<d6>", "<d7>",
       "<d8>", "<d9>", "<da>", "<db>", "<dc>", "<dd>", "<de>", "<df>",
       "<e0>", "<e1>", "<e2>", "<e3>", "<e4>", "<e5>", "<e6>", "<e7>",
       "<e8>", "<e9>", "<ea>", "<eb>", "<ec>", "<ed>", "<ee>", "<ef>",
       "<f0>", "<f1>", "<f2>", "<f3>", "<f4>", "<f5>", "<f6>", "<f7>",
       "<f8>", "<f9>", "<fa>", "<fb>", "<fc>", "<fd>", "<fe>", "<ff>"
    >>

CharSet == {Chr[i] : i \in 1..256}

CodeTable == [c \in CharSet |-> (CHOOSE i \in 1..256 : Chr[i] = c) - 1]

\* charCodeAt: the code point of a character.
Ord(c) == CodeTable[c]

FromCode(cp) == Chr[cp + 1]

\* The characters with codes lo..hi.
Range(lo, hi) == {Chr[i + 1] : i \in Ord(lo)..Ord(hi)}

Digits == Range("0", "9")

Letters == Range("a", "z") \cup Range("A", "Z")

\* White space as String.prototype.trim sees it, within the alphabet.
WhiteSpace == {" ", "<09>", "<0a>", "<0b>", "<0c>", "<0d>", "<a0>"}

(***************************************************************************)
(* String.prototype functions, with the 0-based positions of the source    *)
(***************************************************************************)

RECURSIVE TrimStart(_)
TrimStart(s) ==
    IF s # <<>> /\ Head(s) \in WhiteSpace THEN TrimStart(Tail(s)) ELSE s

RECURSIVE TrimEnd(_)
TrimEnd(s) ==
    IF s # <<>> /\ s[Len(s)] \in WhiteSpace
    THEN TrimEnd(SubSeq(s, 1, Len(s) - 1))
    ELSE s

trim(s) == TrimEnd(TrimStart(s))

\* s.indexOf(c): the 0-based position of the first c, or -1.
indexOf(s, c) ==
    IF \E i \in 1..Len(s) : s[i] = c
    THEN (CHOOSE i \in 1..Len(s) : s[i] = c /\ \A j \in 1..(i - 1) : s[j] # c) - 1
    ELSE -1

\* s.lastIndexOf(c): the 0-based position of the last c, or -1.
lastIndexOf(s, c) ==
    IF \E i \in 1..Len(s) : s[i] = c
    THEN (CHOOSE i \in 1..Len(s) : s[i] = c /\ \A j \in (i + 1)..Len(s) : s[j] # c) - 1
    ELSE -1

includes(s, c) == \E i \in 1..Len(s) : s[i] = c

\* s.substring(from, to) and s.substring(from), 0-based, end exclusive.
substring(s, from, to) == SubSeq(s, from + 1, to)

substringFrom(s, from) == SubSeq(s, from + 1, Len(s))

startsWith(s, c) == s # <<>> /\ s[1] = c

endsWith(s, c) == s # <<>> /\ s[Len(s)] = c

\* s.split(c): the pieces between the occurrences of c (never empty).
RECURSIVE split(_, _)
split(s, c) ==
    With(indexOf(s, c), LAMBDA p :
        IF p = -1
        THEN <<s>>
        ELSE <<substring(s, 0, p)>> \o split(substringFrom(s, p + 1), c))

\* The strings ss[lo], ..., ss[hi] joined, halving the range.
RECURSIVE ConcatRange(_, _, _)
ConcatRange(ss, lo, hi) ==
    IF lo > hi THEN <<>>
    ELSE IF lo = hi THEN ss[lo]
    ELSE ConcatRange(ss, lo, (lo + hi) \div 2)
         \o ConcatRange(ss, (lo + hi) \div 2 + 1, hi)

Concat(ss) == ConcatRange(ss, 1, Len(ss))

(***************************************************************************)
(* Percent-encoding: encodeURIComponent and decodeURIComponent             *)
(***************************************************************************)

HexUpper == <<"0", "1", "2", "3", "4", "5", "6", "7",
              "8", "9", "A", "B", "C", "D", "E", "F">>

HexLower == <<"0", "1", "2", "3", "4", "5", "6", "7",
              "8", "9", "a", "b", "c", "d", "e", "f">>

HexChars == {HexUpper[i] : i \in 1..16} \cup {HexLower[i] : i \in 1..16}

HexValue(c) ==
    CHOOSE v \in 0..15 : HexUpper[v + 1] = c \/ HexLower[v + 1] = c

\* The characters encodeURIComponent leaves as they are.
UriUnreserved ==
    Letters \cup Digits \cup {"-", "_", ".", "!", "~", "*", "'", "(", ")"}

PercentByte(b) == <<"%", HexUpper[(b \div 16) + 1], HexUpper[(b % 16) + 1]>>

\* The UTF-8 bytes of a code point up to U+00FF.
Utf8(cp) == IF cp < 128 THEN <<cp>> ELSE <<192 + (cp \div 64), 128 + (cp % 64)>>

EncodeChar(c) ==
    IF c \in UriUnreserved
    THEN <<c>>
    ELSE With(Utf8(Ord(c)), LAMBDA bytes :
             Concat([i \in 1..Len(bytes) |-> PercentByte(bytes[i])]))

encodeURIComponent(s) == Concat([i \in 1..Len(s) |-> EncodeChar(s[i])])

\* The exception decodeURIComponent throws on a malformed escape.
URIError == <<"<URIError>">>

\* Is there an escape %XX at 1-based position i of s?
IsEscape(s, i) ==
    /\ i + 2 <= Len(s)
    /\ s[i] = "%"
    /\ s[i + 1] \in HexChars
    /\ s[i + 2] \in HexChars

EscapeByte(s, i) == 16 * HexValue(s[i + 1]) + HexValue(s[i + 2])

\* The number of bytes of the UTF-8 sequence a lead byte opens (0: none).
Utf8Length(b) ==
    IF b < 128 THEN 1
    ELSE IF b >= 194 /\ b <= 223 THEN 2
    ELSE IF b >= 224 /\ b <= 239 THEN 3
    ELSE IF b >= 240 /\ b <= 244 THEN 4
    ELSE 0

IsContinuation(s, i) ==
    IsEscape(s, i) /\ EscapeByte(s, i) >= 128 /\ EscapeByte(s, i) <= 191

\* Is position i inside the escape that a "%" one or two places back opens?
InEscape(s, i) == (i > 1 /\ s[i - 1] = "%") \/ (i > 2 /\ s[i - 2] = "%")

\* Is the escape at i a continuation byte that a lead byte before it owns?
Owned(s, i) ==
    \E k \in 1..3 :
        /\ i - 3 * k >= 1
        /\ IsEscape(s, i - 3 * k)
        /\ Utf8Length(EscapeByte(s, i - 3 * k)) > k
        /\ EscapeByte(s, i - 3 * k) >= 128
        /\ \A j \in 1..(k - 1) : IsContinuation(s, i - 3 * j)

\* Does decoding stop with a URIError at position i?
BadEscape(s, i) ==
    /\ s[i] = "%"
    /\ \/ ~IsEscape(s, i)
       \/ LET b == EscapeByte(s, i)
              n == Utf8Length(b)
          IN  IF IsContinuation(s, i) THEN ~Owned(s, i)
              ELSE n = 0 \/ \E k \in 1..(n - 1) : ~IsContinuation(s, i + 3 * k)

\* The positions that give a character of the result.
GivesChar(s, i) ==
    IF s[i] = "%" THEN ~IsContinuation(s, i) ELSE ~InEscape(s, i)

\* The character position i gives; a code point above U+00FF is outside
\* the alphabet and reads as "<wide>".
DecodedChar(s, i) ==
    IF s[i] # "%" THEN s[i]
    ELSE IF EscapeByte(s, i) < 128 THEN FromCode(EscapeByte(s, i))
    ELSE IF EscapeByte(s, i) <= 195
    THEN FromCode((EscapeByte(s, i) - 192) * 64 + (EscapeByte(s, i + 3) - 128))
    ELSE "<wide>"

DecodeFrom(s, i) ==
    IF \E j \in i..Len(s) : BadEscape(s, j)
    THEN URIError
    ELSE LET at == SelectSeq([j \in 1..Len(s) |-> j],
                             LAMBDA j : j >= i /\ GivesChar(s, j))
         IN  [k \in 1..Len(at) |-> DecodedChar(s, at[k])]

\* decodeURIComponent(s): the decoded string, or URIError when it throws.
decodeURIComponent(s) == DecodeFrom(s, 1)

(***************************************************************************)
(* JavaScript values: objects, undefined, false, thrown errors             *)
(***************************************************************************)

\* undefined and false, where a string may stand as well.
Undefined == <<"<undefined>">>

False == <<"<false>">>

\* What a member inherited from Object.prototype reads as.
Inherited == <<"<inherited>">>

\* The object literal {}: no own property.
EmptyObject == <<>>

\* The names every object literal inherits from Object.prototype.
ObjectPrototypeKeys ==
    { <<"_", "_", "p", "r", "o", "t", "o", "_", "_">>,
      <<"c", "o", "n", "s", "t", "r", "u", "c", "t", "o", "r">>,
      <<"t", "o", "S", "t", "r", "i", "n", "g">>,
      <<"t", "o", "L", "o", "c", "a", "l", "e", "S", "t", "r", "i", "n", "g">>,
      <<"v", "a", "l", "u", "e", "O", "f">>,
      <<"h", "a", "s", "O", "w", "n", "P", "r", "o", "p", "e", "r", "t", "y">>,
      <<"i", "s", "P", "r", "o", "t", "o", "t", "y", "p", "e", "O", "f">>,
      <<"p", "r", "o", "p", "e", "r", "t", "y", "I", "s", "E", "n", "u", "m",
        "e", "r", "a", "b", "l", "e">>,
      <<"_", "_", "d", "e", "f", "i", "n", "e", "G", "e", "t", "t", "e", "r",
        "_", "_">>,
      <<"_", "_", "d", "e", "f", "i", "n", "e", "S", "e", "t", "t", "e", "r",
        "_", "_">>,
      <<"_", "_", "l", "o", "o", "k", "u", "p", "G", "e", "t", "t", "e", "r",
        "_", "_">>,
      <<"_", "_", "l", "o", "o", "k", "u", "p", "S", "e", "t", "t", "e", "r",
        "_", "_">> }

ProtoKey == <<"_", "_", "p", "r", "o", "t", "o", "_", "_">>

\* obj[key] ??= value: the first value a key is given stays.
ObjectSetOnce(obj, key, value) ==
    IF key = ProtoKey \/ key \in DOMAIN obj
    THEN obj
    ELSE [k \in DOMAIN obj \cup {key} |-> IF k = key THEN value ELSE obj[k]]

\* obj[key] = value on an object literal, value a string or false: the
\* inherited __proto__ setter ignores such a value and adds no property.
ObjectSet(obj, key, value) ==
    IF key = ProtoKey
    THEN obj
    ELSE [k \in DOMAIN obj \cup {key} |-> IF k = key THEN value ELSE obj[k]]

\* obj[key] on an object literal: the own property, else the inherited
\* member, else undefined.
ObjectGet(obj, key) ==
    IF key \in DOMAIN obj THEN obj[key]
    ELSE IF key \in ObjectPrototypeKeys THEN Inherited
    ELSE Undefined

\* { ...base, ...opt }: the properties of opt over those of base.
Spread(base, opt) ==
    [f \in DOMAIN base \cup DOMAIN opt |->
        IF f \in DOMAIN opt THEN opt[f] ELSE base[f]]

\* if (opt.f) for a string-valued option f.
TruthyString(opt, f) ==
    f \in DOMAIN opt /\ opt[f] # Undefined /\ opt[f] # <<>>

\* "f" in opt for a boolean option f: given, be it false.
TruthyFlagGiven(opt, f) == f \in DOMAIN opt

\* if (opt.f) for a boolean option f.
TruthyFlag(opt, f) == f \in DOMAIN opt /\ opt[f]

(***************************************************************************)
(* utils: parse                                                            *)
(***************************************************************************)

\* validCookieNameRegEx = /^[\w!#$%&'*.^`|~+-]+$/
NameChars ==
    Letters \cup Digits \cup
    {"_", "!", "#", "$", "%", "&", "'", "*", ".", "^", "<60>", "|", "~", "+", "-"}

validCookieNameRegEx(s) == s # <<>> /\ \A i \in 1..Len(s) : s[i] \in NameChars

\* validCookieValueRegEx = /^[ !#-:<-[\]-~]*$/
ValueChars ==
    {" ", "!"} \cup Range("#", ":") \cup Range("<", "[") \cup Range("]", "~")

validCookieValueRegEx(s) == \A i \in 1..Len(s) : s[i] \in ValueChars

\* What parse and its callers return: the mapping, or the error thrown.
Returned(obj) == [threw |-> FALSE, value |-> obj]

Thrown(e) == [threw |-> TRUE, value |-> e]

\* The reducer that lets every name through, whatever name parse is given.
ParsePairUnfiltered(parsedCookie, pairStr0, name) ==
    With(trim(pairStr0), LAMBDA pairStr :
    With(indexOf(pairStr, "="), LAMBDA valueStartPos :
        IF valueStartPos = -1 THEN Returned(parsedCookie)
        ELSE
    With(trim(substring(pairStr, 0, valueStartPos)), LAMBDA cookieName :
        IF ~validCookieNameRegEx(cookieName)
        THEN Returned(parsedCookie)
        ELSE
    With(trim(substringFrom(pairStr, valueStartPos + 1)), LAMBDA trimmed :
    With(IF startsWith(trimmed, "\"") /\ endsWith(trimmed, "\"")
         THEN SubSeq(trimmed, 2, Len(trimmed) - 1)
         ELSE trimmed, LAMBDA cookieValue :
        IF ~validCookieValueRegEx(cookieValue) THEN Returned(parsedCookie)
        ELSE
    With(decodeURIComponent(cookieValue), LAMBDA decoded :
        IF decoded = URIError THEN Thrown(URIError)
        ELSE Returned(ObjectSet(parsedCookie, cookieName, decoded))))))))

\* The reducer of parse: parsedCookie after the pair pairStr.
ParsePair(parsedCookie, pairStr0, name) ==
    With(trim(pairStr0), LAMBDA pairStr :
    With(indexOf(pairStr, "="), LAMBDA valueStartPos :
        IF valueStartPos = -1 THEN Returned(parsedCookie)
        ELSE
    With(trim(substring(pairStr, 0, valueStartPos)), LAMBDA cookieName :
        IF \/ (name # Undefined /\ name # <<>> /\ name # cookieName)
           \/ ~validCookieNameRegEx(cookieName)
        THEN Returned(parsedCookie)
        ELSE
    With(trim(substringFrom(pairStr, valueStartPos + 1)), LAMBDA trimmed :
    With(IF startsWith(trimmed, "\"") /\ endsWith(trimmed, "\"")
         THEN SubSeq(trimmed, 2, Len(trimmed) - 1)
         ELSE trimmed, LAMBDA cookieValue :
        IF ~validCookieValueRegEx(cookieValue) THEN Returned(parsedCookie)
        ELSE
    With(decodeURIComponent(cookieValue), LAMBDA decoded :
        IF decoded = URIError THEN Thrown(URIError)
        ELSE Returned(ObjectSet(parsedCookie, cookieName, decoded))))))))

RECURSIVE ParseReduce(_, _, _, _)
ParseReduce(pairs, i, acc, name) ==
    IF i > Len(pairs) THEN Returned(acc)
    ELSE With(ParsePair(acc, pairs[i], name), LAMBDA r :
             IF r.threw THEN r ELSE ParseReduce(pairs, i + 1, r.value, name))

\* parse(cookie, name?); name is Undefined when the argument is left out.
parse(cookie, name) == ParseReduce(split(trim(cookie), ";"), 1, EmptyObject, name)

(***************************************************************************)
(* utils: _serialize and serialize                                         *)
(***************************************************************************)

\* String(n) for an integer n >= 0.
RECURSIVE NumberToString(_)
NumberToString(n) ==
    IF n < 10
    THEN <<FromCode(48 + n)>>
    ELSE NumberToString(n \div 10) \o <<FromCode(48 + (n % 10))>>

TwoDigits(n) == <<FromCode(48 + (n \div 10)), FromCode(48 + (n % 10))>>

RECURSIVE PadStart(_, _, _)
PadStart(s, n, c) == IF Len(s) >= n THEN s ELSE PadStart(<<c>> \o s, n, c)

DayNames ==
    << <<"S", "u", "n">>, <<"M", "o", "n">>, <<"T", "u", "e">>,
       <<"W", "e", "d">>, <<"T", "h", "u">>, <<"F", "r", "i">>,
       <<"S", "a", "t">> >>

MonthNames ==
    << <<"J", "a", "n">>, <<"F", "e", "b">>, <<"M", "a", "r">>,
       <<"A", "p", "r">>, <<"M", "a", "y">>, <<"J", "u", "n">>,
       <<"J", "u", "l">>, <<"A", "u", "g">>, <<"S", "e", "p">>,
       <<"O", "c", "t">>, <<"N", "o", "v">>, <<"D", "e", "c">> >>

\* Date.prototype.toUTCString.  A Date is its time value in whole seconds
\* since the epoch (toUTCString drops the milliseconds), from 1970 on.
toUTCString(t) ==
    LET days == t \div 86400
        secs == t % 86400
        era  == (days + 719468) \div 146097
    IN
    With(days + 719468 - era * 146097, LAMBDA doe :
    With((doe - doe \div 1460 + doe \div 36524 - doe \div 146096) \div 365, LAMBDA yoe :
    With(doe - (365 * yoe + yoe \div 4 - yoe \div 100), LAMBDA doy :
    With((5 * doy + 2) \div 153, LAMBDA mp :
    With(IF mp < 10 THEN mp + 3 ELSE mp - 9, LAMBDA m :
    LET d == doy - (153 * mp + 2) \div 5 + 1
        y == yoe + era * 400 + (IF m <= 2 THEN 1 ELSE 0)
    IN  DayNames[((days + 4) % 7) + 1] \o <<",", " ">> \o TwoDigits(d) \o <<" ">>
        \o MonthNames[m] \o <<" ">> \o PadStart(NumberToString(y), 4, "0")
        \o <<" ">> \o TwoDigits(secs \div 3600) \o <<":">>
        \o TwoDigits((secs % 3600) \div 60) \o <<":">> \o TwoDigits(secs % 60)
        \o <<" ", "G", "M", "T">>)))))

\* The options of CookieOptions are the fields of a record; an option left
\* out is a field the record does not have.  maxAge is a number given in
\* tenths (15 is 1.5), so that Math.floor has something to round.
\* _serialize(name, value, opt): the pair and then each attribute the
\* options ask for, in the order of the source.
_serialize(name, value, opt) ==
    LET maxAge ==
            IF "maxAge" \in DOMAIN opt /\ opt.maxAge >= 0
            THEN <<";", " ", "M", "a", "x", "-", "A", "g", "e", "=">>
                 \o NumberToString(opt.maxAge \div 10)
            ELSE <<>>
        domain ==
            IF TruthyString(opt, "domain")
            THEN <<";", " ", "D", "o", "m", "a", "i", "n", "=">> \o opt.domain
            ELSE <<>>
        path ==
            IF TruthyString(opt, "path")
            THEN <<";", " ", "P", "a", "t", "h", "=">> \o opt.path
            ELSE <<>>
        expires ==
            IF "expires" \in DOMAIN opt
            THEN <<";", " ", "E", "x", "p", "i", "r", "e", "s", "=">>
                 \o toUTCString(opt.expires)
            ELSE <<>>
        httpOnly ==
            IF TruthyFlag(opt, "httpOnly")
            THEN <<";", " ", "H", "t", "t", "p", "O", "n", "l", "y">>
            ELSE <<>>
        secure ==
            IF TruthyFlag(opt, "secure")
            THEN <<";", " ", "S", "e", "c", "u", "r", "e">>
            ELSE <<>>
        sameSite ==
            IF TruthyString(opt, "sameSite")
            THEN <<";", " ", "S", "a", "m", "e", "S", "i", "t", "e", "=">>
                 \o opt.sameSite
            ELSE <<>>
        partitioned ==
            IF TruthyFlag(opt, "partitioned")
            THEN <<";", " ", "P", "a", "r", "t", "i", "t", "i", "o", "n", "e", "d">>
            ELSE <<>>
    IN  name \o <<"=">> \o value
        \o maxAge \o domain \o path \o expires
        \o httpOnly \o secure \o sameSite \o partitioned

\* serialize without the percent-encoding of the value.
serializeUnencoded(name, value, opt) == _serialize(name, value, opt)

serialize(name, value, opt) == _serialize(name, encodeURIComponent(value), opt)


(***************************************************************************)
(* Bytes, hex and base64                                                   *)
(***************************************************************************)

\* TextEncoder.encode: the UTF-8 bytes of a string.
stringToBuffer(s) == Concat([i \in 1..Len(s) |-> Utf8(Ord(s[i]))])

\* x.toString(16).padStart(2, "0") over the bytes, joined.
HexString(bytes) ==
    Concat([i \in 1..Len(bytes) |->
        <<HexLower[(bytes[i] \div 16) + 1], HexLower[(bytes[i] % 16) + 1]>>])

Base64Alphabet ==
    <<"A", "B", "C", "D", "E", "F", "G", "H", "I", "J", "K", "L", "M",
      "N", "O", "P", "Q", "R", "S", "T", "U", "V", "W", "X", "Y", "Z",
      "a", "b", "c", "d", "e", "f", "g", "h", "i", "j", "k", "l", "m",
      "n", "o", "p", "q", "r", "s", "t", "u", "v", "w", "x", "y", "z",
      "0", "1", "2", "3", "4", "5", "6", "7", "8", "9", "+", "/">>

Base64UrlAlphabet ==
    [i \in 1..64 |->
        IF i = 63 THEN "-" ELSE IF i = 64 THEN "_" ELSE Base64Alphabet[i]]

AlphabetChars(alphabet) == {alphabet[i] : i \in 1..64}

SextetOf(alphabet, c) == (CHOOSE i \in 1..64 : alphabet[i] = c) - 1

\* The characters of the bytes from position i on, without padding.
RECURSIVE Base64From(_, _, _)
Base64From(bytes, i, alphabet) ==
    LET n  == Len(bytes) - i + 1
        b1 == bytes[i]
        b2 == IF n >= 2 THEN bytes[i + 1] ELSE 0
        b3 == IF n >= 3 THEN bytes[i + 2] ELSE 0
        c1 == alphabet[(b1 \div 4) + 1]
        c2 == alphabet[((b1 % 4) * 16 + b2 \div 16) + 1]
        c3 == alphabet[((b2 % 16) * 4 + b3 \div 64) + 1]
        c4 == alphabet[(b3 % 64) + 1]
    IN  IF n <= 0 THEN <<>>
        ELSE IF n = 1 THEN <<c1, c2>>
        ELSE IF n = 2 THEN <<c1, c2, c3>>
        ELSE <<c1, c2, c3, c4>> \o Base64From(bytes, i + 3, alphabet)

RECURSIVE Repeat(_, _)
Repeat(c, n) == IF n <= 0 THEN <<>> ELSE <<c>> \o Repeat(c, n - 1)

\* btoa(String.fromCharCode(...bytes)): base64 with "=" padding.
btoa(bytes) ==
    With(Base64From(bytes, 1, Base64Alphabet), LAMBDA body :
        body \o Repeat("=", (4 - (Len(body) % 4)) % 4))

\* The bytes of the sextets from position i on; the bits left over at the
\* end (2 after three characters, 4 after two) are discarded unchecked.
RECURSIVE BytesFrom(_, _, _)
BytesFrom(cs, i, alphabet) ==
    LET n  == Len(cs) - i + 1
        s1 == SextetOf(alphabet, cs[i])
        s2 == SextetOf(alphabet, cs[i + 1])
        s3 == SextetOf(alphabet, cs[i + 2])
        s4 == SextetOf(alphabet, cs[i + 3])
        o1 == s1 * 4 + s2 \div 16
        o2 == (s2 % 16) * 16 + s3 \div 4
        o3 == (s3 % 4) * 64 + s4
    IN  IF n <= 1 THEN <<>>
        ELSE IF n = 2 THEN <<o1>>
        ELSE IF n = 3 THEN <<o1, o2>>
        ELSE <<o1, o2, o3>> \o BytesFrom(cs, i + 4, alphabet)

\* What a decoder gives: the bytes, or nothing when it throws.
Bytes(bs) == [ok |-> TRUE, bytes |-> bs]

NoBytes == [ok |-> FALSE, bytes |-> <<>>]

AsciiWhiteSpace == {" ", "<09>", "<0a>", "<0c>", "<0d>"}

Without(s, drop) == SelectSeq(s, LAMBDA c : c \notin drop)

\* Up to two trailing "=" of a string whose length is a multiple of 4.
Unpadded(s) ==
    IF Len(s) % 4 # 0 THEN s
    ELSE IF Len(s) >= 2 /\ s[Len(s)] = "=" /\ s[Len(s) - 1] = "="
    THEN SubSeq(s, 1, Len(s) - 2)
    ELSE IF Len(s) >= 1 /\ s[Len(s)] = "="
    THEN SubSeq(s, 1, Len(s) - 1)
    ELSE s

\* atob: the forgiving base64 decoding of the HTML standard.
atob(s) ==
    With(Unpadded(Without(s, AsciiWhiteSpace)), LAMBDA data :
        IF \/ Len(data) % 4 = 1
           \/ \E i \in 1..Len(data) : data[i] \notin AlphabetChars(Base64Alphabet)
        THEN NoBytes
        ELSE Bytes(BytesFrom(data, 1, Base64Alphabet)))


(***************************************************************************)
(* The crypto provider (crypto.subtle, crypto.getRandomValues).  The       *)
(* primitives are stand-ins with the interface of the real ones: a keyed   *)
(* hash of 32 bytes that tells apart any two messages differing in one     *)
(* byte and, for messages of up to 24 bytes, any two messages at all; a    *)
(* key derivation built on it; and a cipher that pads to blocks of 16      *)
(* bytes and whose decryption fails on bad padding.                        *)
(***************************************************************************)

\* The sum of w(i) * bytes[i] over lo..hi, halving the range; weighted
\* says whether w(i) is i or 1.
RECURSIVE SumBytes(_, _, _, _)
SumBytes(bytes, lo, hi, weighted) ==
    IF lo > hi THEN 0
    ELSE IF lo = hi THEN (IF weighted THEN lo ELSE 1) * (bytes[lo] + 1)
    ELSE SumBytes(bytes, lo, (lo + hi) \div 2, weighted)
         + SumBytes(bytes, (lo + hi) \div 2 + 1, hi, weighted)

\* crypto.subtle.sign("HMAC", key, data) with SHA-256: 32 bytes.
HmacSha256(key, data) ==
    With(<<Len(key) % 256>> \o key \o data, LAMBDA m :
    With(SumBytes(m, 1, Len(m), FALSE), LAMBDA h1 :
    With(SumBytes(m, 1, Len(m), TRUE), LAMBDA h2 :
        <<(h1 \div 65536) % 256, (h1 \div 256) % 256, h1 % 256,
          (h2 \div 16777216) % 256, (h2 \div 65536) % 256, (h2 \div 256) % 256,
          h2 % 256, Len(data) % 256>>
        \o [i \in 1..24 |-> IF i <= Len(data) THEN data[i] ELSE 0])))

\* crypto.subtle.deriveBits with PBKDF2 (SHA-1): keyLength bytes.
pbkdf2(password, salt, iterations, keyLength) ==
    SubSeq(HmacSha256(stringToBuffer(password),
                      <<iterations % 256>> \o stringToBuffer(salt)),
           1, keyLength)

\* PKCS#7: pad to the next multiple of 16 bytes (a whole block if none).
Pkcs7Pad(bytes) ==
    LET n == 16 - (Len(bytes) % 16) IN bytes \o [i \in 1..n |-> n]

\* The key stream of the stand-in cipher under a key and an IV.
KeyStream(key, iv, i) ==
    (SumBytes(key \o iv, 1, Len(key) + Len(iv), TRUE) + 5 * i) % 256

\* crypto.subtle.encrypt with AES-CBC: key and plaintext are bytes.
AesCbcEncrypt(key, iv, data) ==
    With(Pkcs7Pad(data), LAMBDA padded :
        [i \in 1..Len(padded) |-> (padded[i] + KeyStream(key, iv, i)) % 256])

\* crypto.subtle.decrypt with AES-CBC: the plaintext, or nothing when the
\* IV is not 16 bytes, the data is not whole blocks or the padding is bad.
AesCbcDecrypt(key, iv, data) ==
    LET n == Len(data)
    IN  IF Len(iv) # 16 \/ n = 0 \/ n % 16 # 0 THEN NoBytes
        ELSE
    With([i \in 1..n |-> (data[i] + 256 - KeyStream(key, iv, i)) % 256], LAMBDA padded :
    With(padded[n], LAMBDA k :
        IF k < 1 \/ k > 16 \/ \E i \in (n - k + 1)..n : padded[i] # k
        THEN NoBytes
        ELSE Bytes(SubSeq(padded, 1, n - k))))

\* crypto.getRandomValues on size bytes: the draw numbered seed.
randomBytes(size, seed) == [i \in 1..size |-> (37 * seed + 7 * i) % 256]

(***************************************************************************)
(* utils: the signed codec                                                 *)
(***************************************************************************)

\* getCryptoKey(secret): the key imported from the bytes of the secret.
getCryptoKey(secret) == stringToBuffer(secret)

makeSignature(value, secret) ==
    btoa(HmacSha256(getCryptoKey(secret), stringToBuffer(value)))

\* verifySignature over the value with the dot that ends it.
verifySignatureWithDot(base64Signature, value, secretKey) ==
    With(atob(base64Signature), LAMBDA signature :
        /\ signature.ok
        /\ signature.bytes = HmacSha256(secretKey, stringToBuffer(value \o <<".">>)))

\* verifySignature: false when atob throws, else crypto.subtle.verify.
verifySignature(base64Signature, value, secretKey) ==
    With(atob(base64Signature), LAMBDA signature :
        /\ signature.ok
        /\ signature.bytes = HmacSha256(secretKey, stringToBuffer(value)))

\* The state of the loops of parseSigned and parseSealed: parsedCookie, and
\* the keys for which verifySignature (or unseal) has been called.
LoopStart == [parsedCookie |-> EmptyObject, tried |-> {}]

\* The turn that drops an entry whose signature does not verify.
SignedEntryDropping(st, key, value, secretKey) ==
    LET signatureStartPos == lastIndexOf(value, ".")
        signedValue == substring(value, 0, signatureStartPos)
        signature == substringFrom(value, signatureStartPos + 1)
    IN  IF signatureStartPos < 1 THEN st
        ELSE IF Len(signature) # 44 \/ ~endsWith(signature, "=") THEN st
        ELSE IF verifySignature(signature, signedValue, secretKey)
        THEN [parsedCookie |-> ObjectSet(st.parsedCookie, key, signedValue),
              tried |-> st.tried \cup {key}]
        ELSE [st EXCEPT !.tried = @ \cup {key}]

\* The turn that verifies whatever follows the last dot.
SignedEntryUnchecked(st, key, value, secretKey) ==
    LET signatureStartPos == lastIndexOf(value, ".")
        signedValue == substring(value, 0, signatureStartPos)
        signature == substringFrom(value, signatureStartPos + 1)
    IN  [parsedCookie |->
             ObjectSet(st.parsedCookie, key,
                       IF verifySignature(signature, signedValue, secretKey)
                       THEN signedValue
                       ELSE False),
         tried |-> st.tried \cup {key}]

\* One turn of the loop of parseSigned over the entry key: value.
SignedEntry(st, key, value, secretKey) ==
    LET signatureStartPos == lastIndexOf(value, ".")
        signedValue == substring(value, 0, signatureStartPos)
        signature == substringFrom(value, signatureStartPos + 1)
    IN  IF signatureStartPos < 1 THEN st
        ELSE IF Len(signature) # 44 \/ ~endsWith(signature, "=") THEN st
        ELSE [parsedCookie |->
                  ObjectSet(st.parsedCookie, key,
                            IF verifySignature(signature, signedValue, secretKey)
                            THEN signedValue
                            ELSE False),
              tried |-> st.tried \cup {key}]

\* for (const [key, value] of Object.entries(obj)) over the own properties
\* keys still to visit; a turn touches no entry but its own.
RECURSIVE SignedLoop(_, _, _, _)
SignedLoop(obj, keys, st, secretKey) ==
    IF keys = {} THEN st
    ELSE LET key == CHOOSE k \in keys : TRUE
         IN  SignedLoop(obj, keys \ {key},
                        SignedEntry(st, key, obj[key], secretKey), secretKey)

\* parseSigned(cookie, secret, name?): what it returns or throws, with the
\* keys it called verifySignature for.
parseSigned(cookie, secret, name) ==
    With(parse(cookie, name), LAMBDA parsed :
        IF parsed.threw
        THEN [threw |-> TRUE, value |-> parsed.value, tried |-> {}]
        ELSE
    With(SignedLoop(parsed.value, DOMAIN parsed.value, LoopStart,
                    getCryptoKey(secret)), LAMBDA st :
        [threw |-> FALSE, value |-> st.parsedCookie, tried |-> st.tried]))

serializeSigned(name, value, secret, opt) ==
    _serialize(name,
               encodeURIComponent(value \o <<".">> \o makeSignature(value, secret)),
               opt)


(***************************************************************************)
(* iron-webcrypto: the sealed codec                                        *)
(***************************************************************************)

\* base64urlEncode: base64 in the URL alphabet, without padding.
base64urlEncode(bytes) == Base64From(bytes, 1, Base64UrlAlphabet)

\* base64urlDecode: the bytes, or nothing when the text is no base64url.
base64urlDecode(s) ==
    IF \/ Len(s) % 4 = 1
       \/ \E i \in 1..Len(s) : s[i] \notin AlphabetChars(Base64UrlAlphabet)
    THEN NoBytes
    ELSE Bytes(BytesFrom(s, 1, Base64UrlAlphabet))

\* bufferToString: the UTF-8 text of the bytes; what is no UTF-8 of a code
\* point up to U+00FF reads as "<wide>".
RECURSIVE bufferToStringFrom(_, _)
bufferToStringFrom(bytes, i) ==
    IF i > Len(bytes) THEN <<>>
    ELSE IF bytes[i] < 128
    THEN <<FromCode(bytes[i])>> \o bufferToStringFrom(bytes, i + 1)
    ELSE IF /\ bytes[i] \in {194, 195}
            /\ i < Len(bytes)
            /\ bytes[i + 1] \in 128..191
    THEN <<FromCode((bytes[i] - 192) * 64 + bytes[i + 1] - 128)>>
         \o bufferToStringFrom(bytes, i + 2)
    ELSE <<"<wide>">> \o bufferToStringFrom(bytes, i + 1)

bufferToString(bytes) == bufferToStringFrom(bytes, 1)

\* const encryption and const integrity, the fixed parameter sets.
encryption ==
    [saltBits |-> 256, algorithm |-> "aes-256-cbc", iterations |-> 1]

integrity ==
    [saltBits |-> 256, algorithm |-> "sha256", iterations |-> 1]

algorithms ==
    [aes256cbc |-> [keyBits |-> 256, ivBits |-> 128, name |-> "AES-CBC"],
     sha256    |-> [keyBits |-> 256, name |-> "SHA-256"]]

AlgorithmOf(options) ==
    IF options.algorithm = "aes-256-cbc" THEN algorithms.aes256cbc
    ELSE algorithms.sha256

\* randomBits(bits): Math.ceil(bits / 8) random bytes.
randomBits(bits, seed) == randomBytes((bits + 7) \div 8, seed)

\* generateKey(password, options).  draws gives the random draws the call
\* may make: draws.salt for the salt, draws.iv for the IV.  The result
\* holds the derived key, the salt and the IV (<<>> when there is none), or
\* threw when the salt and the saltBits are both missing.
generateKey(password, options, draws) ==
    LET given == IF "salt" \in DOMAIN options THEN options.salt ELSE <<>>
        noSalt == given = <<>> \/ given = Undefined
        noBits == "saltBits" \notin DOMAIN options \/ options.saltBits = 0
    IN  IF noSalt /\ noBits
        THEN [threw |-> TRUE, key |-> <<>>, salt |-> <<>>, iv |-> <<>>]
        ELSE
    With(AlgorithmOf(options), LAMBDA algorithm :
    With(IF noSalt
         THEN HexString(randomBits(options.saltBits, draws.salt))
         ELSE given, LAMBDA salt :
        [threw |-> FALSE,
         key |-> pbkdf2(password, salt, options.iterations, algorithm.keyBits \div 8),
         salt |-> salt,
         iv |-> IF "iv" \in DOMAIN options THEN options.iv
                ELSE IF "ivBits" \in DOMAIN algorithm
                THEN randomBits(algorithm.ivBits, draws.iv)
                ELSE <<>>]))

\* encrypt(password, options, data)
encrypt(password, options, data, draws) ==
    With(generateKey(password, options, draws), LAMBDA key :
        [threw |-> key.threw,
         encrypted |-> IF key.threw THEN <<>>
                       ELSE AesCbcEncrypt(key.key, key.iv, stringToBuffer(data)),
         key |-> key])

\* decrypt under an IV of zeros, whatever the options give.
decryptWithoutIv(password, options, data, draws) ==
    With(generateKey(password, options, draws), LAMBDA key :
        IF key.threw THEN Thrown(<<"M", "i", "s", "s", "i", "n", "g">>)
        ELSE
    With(AesCbcDecrypt(key.key, [i \in 1..16 |-> 0], data), LAMBDA decrypted :
        IF ~decrypted.ok
        THEN Thrown(<<"O", "p", "e", "r", "a", "t", "i", "o", "n">>)
        ELSE Returned(bufferToString(decrypted.bytes))))

\* decrypt(password, options, data): the text, or the error thrown.
decrypt(password, options, data, draws) ==
    With(generateKey(password, options, draws), LAMBDA key :
        IF key.threw THEN Thrown(<<"M", "i", "s", "s", "i", "n", "g">>)
        ELSE
    With(AesCbcDecrypt(key.key, key.iv, data), LAMBDA decrypted :
        IF ~decrypted.ok
        THEN Thrown(<<"O", "p", "e", "r", "a", "t", "i", "o", "n">>)
        ELSE Returned(bufferToString(decrypted.bytes))))

\* hmacWithPassword(password, options, data)
hmacWithPassword(password, options, data, draws) ==
    With(generateKey(password, Spread(options, [hmac |-> TRUE]), draws), LAMBDA key :
        [threw |-> key.threw,
         digest |-> IF key.threw THEN <<>>
                    ELSE base64urlEncode(HmacSha256(key.key, stringToBuffer(data))),
         salt |-> key.salt])

\* seal with the mac taken over the ciphertext alone.
sealMacOfCiphertext(value, password, draws) ==
    With(encrypt(password, encryption, value,
                 [salt |-> draws.encSalt, iv |-> draws.iv]), LAMBDA enc :
    LET encryptedB64 == base64urlEncode(enc.encrypted)
        iv == base64urlEncode(enc.key.iv)
    IN
    With(hmacWithPassword(password, integrity, encryptedB64,
                          [salt |-> draws.macSalt, iv |-> draws.iv]), LAMBDA mac :
        enc.key.salt \o <<"*">> \o iv \o <<"*">> \o encryptedB64
        \o <<"*">> \o mac.salt \o <<"*">> \o mac.digest))

\* seal(value, password); draws: encSalt, iv and macSalt, the three draws.
seal(value, password, draws) ==
    With(encrypt(password, encryption, value,
                 [salt |-> draws.encSalt, iv |-> draws.iv]), LAMBDA enc :
    LET encryptedB64 == base64urlEncode(enc.encrypted)
        iv == base64urlEncode(enc.key.iv)
    IN
    With(enc.key.salt \o <<"*">> \o iv \o <<"*">> \o encryptedB64, LAMBDA macBaseString :
    With(hmacWithPassword(password, integrity, macBaseString,
                          [salt |-> draws.macSalt, iv |-> draws.iv]), LAMBDA mac :
        macBaseString \o <<"*">> \o mac.salt \o <<"*">> \o mac.digest)))

\* The comparison that looks at the lengths alone.
fixedTimeComparisonOfLengths(a, b) == Len(a) = Len(b)

\* fixedTimeComparison(a, b): mismatch is set by the lengths and then by
\* every position of a, where a[i] and b[i] differ.
fixedTimeComparison(a, b) ==
    LET differ == Len(a) # Len(b)
        bb == IF differ THEN a ELSE b
    IN  ~(differ \/ \E i \in 1..Len(a) : a[i] # bb[i])

\* x | y of two character codes when or, x ^ y when not.
RECURSIVE Bitwise(_, _, _)
Bitwise(x, y, or) ==
    IF x = 0 /\ y = 0 THEN 0
    ELSE (IF (IF or THEN x % 2 = 1 \/ y % 2 = 1 ELSE x % 2 # y % 2) THEN 1 ELSE 0)
         + 2 * Bitwise(x \div 2, y \div 2, or)

\* The loop that ends at the first place where a and b differ.
RECURSIVE fixedTimeLoopUntilMismatch(_, _, _, _, _)
fixedTimeLoopUntilMismatch(a, b, lo, hi, mismatch) ==
    IF lo > hi \/ mismatch # 0 THEN [mismatch |-> mismatch, turns |-> 0]
    ELSE IF lo = hi
    THEN [mismatch |-> Bitwise(mismatch, Bitwise(Ord(a[lo]), Ord(b[lo]), FALSE), TRUE),
          turns |-> 1]
    ELSE With(fixedTimeLoopUntilMismatch(a, b, lo, (lo + hi) \div 2, mismatch),
              LAMBDA left :
         With(fixedTimeLoopUntilMismatch(a, b, (lo + hi) \div 2 + 1, hi, left.mismatch),
              LAMBDA right :
             [mismatch |-> right.mismatch, turns |-> left.turns + right.turns]))

\* The loop of fixedTimeComparison over the places lo..hi of a, halving
\* the range: the mismatch it ends with and the turns it takes.
RECURSIVE fixedTimeLoop(_, _, _, _, _)
fixedTimeLoop(a, b, lo, hi, mismatch) ==
    IF lo > hi THEN [mismatch |-> mismatch, turns |-> 0]
    ELSE IF lo = hi
    THEN [mismatch |-> Bitwise(mismatch, Bitwise(Ord(a[lo]), Ord(b[lo]), FALSE), TRUE),
          turns |-> 1]
    ELSE With(fixedTimeLoop(a, b, lo, (lo + hi) \div 2, mismatch), LAMBDA left :
         With(fixedTimeLoop(a, b, (lo + hi) \div 2 + 1, hi, left.mismatch),
              LAMBDA right :
             [mismatch |-> right.mismatch, turns |-> left.turns + right.turns]))

\* fixedTimeComparison(a, b) by its loop: what it returns and the turns of
\* the loop.
fixedTimeComparisonTurns(a, b) ==
    LET mismatch == IF Len(a) = Len(b) THEN 0 ELSE 1
        bb == IF mismatch # 0 THEN a ELSE b
    IN  With(fixedTimeLoop(a, bb, 1, Len(a), mismatch), LAMBDA end :
            [result |-> end.mismatch = 0, turns |-> end.turns])

\* How many draws generateKey(password, options) makes: one for the salt
\* when options gives none, one for the IV when options gives none and the
\* algorithm has one.
generateKeyDraws(options) ==
    (IF "salt" \notin DOMAIN options \/ options.salt = <<>> THEN 1 ELSE 0)
    + (IF "iv" \notin DOMAIN options /\ "ivBits" \in DOMAIN AlgorithmOf(options)
       THEN 1 ELSE 0)

\* unseal(sealed, password): the text, or the error thrown.  draws gives
\* the draws generateKey makes when a salt field is empty.
unseal(sealed, password, draws) ==
    With(split(sealed, "*"), LAMBDA parts :
        IF Len(parts) # 5
        THEN Thrown(<<"I", "n", "c", "o", "r", "r", "e", "c", "t">>)
        ELSE
    LET encryptionSalt == parts[1]
        encryptionIv == parts[2]
        encryptedB64 == parts[3]
        hmacSalt == parts[4]
        hmac == parts[5]
        macBaseString ==
            encryptionSalt \o <<"*">> \o encryptionIv \o <<"*">> \o encryptedB64
        macOptions == Spread(integrity, [salt |-> hmacSalt])
    IN
    With(hmacWithPassword(password, macOptions, macBaseString,
                          [salt |-> draws.macSalt, iv |-> draws.macSalt]), LAMBDA mac :
        IF ~fixedTimeComparison(mac.digest, hmac)
        THEN Thrown(<<"B", "a", "d", " ", "h", "m", "a", "c">>)
        ELSE
    With(base64urlDecode(encryptionIv), LAMBDA iv :
    With(base64urlDecode(encryptedB64), LAMBDA encrypted :
        IF ~iv.ok \/ ~encrypted.ok
        THEN Thrown(<<"I", "n", "v", "a", "l", "i", "d">>)
        ELSE decrypt(password,
                     Spread(encryption, [salt |-> encryptionSalt, iv |-> iv.bytes]),
                     encrypted.bytes,
                     [salt |-> draws.encSalt, iv |-> draws.encSalt])))))

\* The turn that unseals a value whether or not it holds a "*".
SealedEntryUnchecked(st, key, value, secret, draws) ==
    With(unseal(value, secret, draws), LAMBDA decrypted :
        [parsedCookie |->
             ObjectSet(st.parsedCookie, key,
                       IF decrypted.threw THEN False ELSE decrypted.value),
         tried |-> st.tried \cup {key}])

\* One turn of the loop of parseSealed over the entry key: value.
SealedEntry(st, key, value, secret, draws) ==
    IF ~includes(value, "*") THEN st
    ELSE With(unseal(value, secret, draws), LAMBDA decrypted :
             [parsedCookie |->
                  ObjectSet(st.parsedCookie, key,
                            IF decrypted.threw THEN False ELSE decrypted.value),
              tried |-> st.tried \cup {key}])

RECURSIVE SealedLoop(_, _, _, _, _)
SealedLoop(obj, keys, st, secret, draws) ==
    IF keys = {} THEN st
    ELSE LET key == CHOOSE k \in keys : TRUE
         IN  SealedLoop(obj, keys \ {key},
                        SealedEntry(st, key, obj[key], secret, draws),
                        secret, draws)

\* parseSealed(cookie, secret, name?): what it returns or throws, with the
\* keys it called unseal for.
parseSealed(cookie, secret, name, draws) ==
    With(parse(cookie, name), LAMBDA parsed :
        IF parsed.threw
        THEN [threw |-> TRUE, value |-> parsed.value, tried |-> {}]
        ELSE
    With(SealedLoop(parsed.value, DOMAIN parsed.value, LoopStart,
                    secret, draws), LAMBDA st :
        [threw |-> FALSE, value |-> st.parsedCookie, tried |-> st.tried]))

serializeSealed(name, value, secret, opt, draws) ==
    _serialize(name, encodeURIComponent(seal(value, secret, draws)), opt)


(***************************************************************************)
(* index: the facade over a Headers container                              *)
(***************************************************************************)

\* A Headers container: its Cookie header (Undefined when there is none)
\* and its Set-Cookie entries in the order they were appended.
NewHeaders == [cookie |-> Undefined, setCookie |-> <<>>]

\* headers.set("set-cookie", cookie): the entry in place of the others.
appendReplacing(headers, cookie) == [headers EXCEPT !.setCookie = <<cookie>>]

\* An append that puts the entry before the entries of the container.
appendInFront(headers, cookie) ==
    [headers EXCEPT !.setCookie = <<cookie>> \o @]

\* headers.append("set-cookie", cookie)
append(headers, cookie) ==
    [headers EXCEPT !.setCookie = Append(@, cookie)]

\* !cookie, for cookie = headers.get("Cookie")
NoCookie(headers) == headers.cookie = Undefined \/ headers.cookie = <<>>

\* getCookie(headers, key?); key is Undefined when the argument is left out.
getCookie(headers, key) ==
    IF key # Undefined
    THEN IF NoCookie(headers) THEN Returned(Undefined)
         ELSE With(parse(headers.cookie, key), LAMBDA obj :
                  IF obj.threw THEN obj
                  ELSE Returned(ObjectGet(obj.value, key)))
    ELSE IF NoCookie(headers) THEN Returned(EmptyObject)
         ELSE parse(headers.cookie, Undefined)

\* value ?? false
OrFalse(value) == IF value = Undefined THEN False ELSE value

\* getSignedCookie(headers, secret, key?)
getSignedCookie(headers, secret, key) ==
    IF key # Undefined
    THEN IF NoCookie(headers)
         THEN [threw |-> FALSE, value |-> False, tried |-> {}]
         ELSE With(parseSigned(headers.cookie, secret, key), LAMBDA obj :
                  IF obj.threw THEN obj
                  ELSE [obj EXCEPT !.value = OrFalse(ObjectGet(obj.value, key))])
    ELSE IF NoCookie(headers)
         THEN [threw |-> FALSE, value |-> EmptyObject, tried |-> {}]
         ELSE parseSigned(headers.cookie, secret, Undefined)

\* getSealedCookie(headers, secret, key?)
getSealedCookie(headers, secret, key, draws) ==
    IF key # Undefined
    THEN IF NoCookie(headers)
         THEN [threw |-> FALSE, value |-> False, tried |-> {}]
         ELSE With(parseSealed(headers.cookie, secret, key, draws), LAMBDA obj :
                  IF obj.threw THEN obj
                  ELSE [obj EXCEPT !.value = OrFalse(ObjectGet(obj.value, key))])
    ELSE IF NoCookie(headers)
         THEN [threw |-> FALSE, value |-> EmptyObject, tried |-> {}]
         ELSE parseSealed(headers.cookie, secret, Undefined, draws)

\* setCookie(headers, name, value, opt?): the container after the call.
setCookie(headers, name, value, opt) ==
    append(headers, serialize(name, value, Spread([path |-> <<"/">>], opt)))

\* crypto.subtle.importKey of getCryptoKey rejects the secret: an HMAC key
\* of no bytes.
ImportKeyRejects(secret) == stringToBuffer(secret) = <<>>

\* setSignedCookie(headers, value, secret, name, opt?), awaited: when the
\* await rejects, the append after it is not reached.
setSignedCookie(headers, value, secret, name, opt) ==
    IF ImportKeyRejects(secret) THEN headers
    ELSE append(headers,
                serializeSigned(name, value, secret, Spread([path |-> <<"/">>], opt)))

\* setCookie(headers, name, "", { maxAge: 0, ...opt }): a maxAge of the
\* caller stays.
deleteCookieKeepingMaxAge(headers, name, opt) ==
    setCookie(headers, name, <<>>, Spread([maxAge |-> 0], opt))

\* deleteCookie(headers, name, opt?); the maxAge of 0 is 0 tenths.
deleteCookie(headers, name, opt) ==
    setCookie(headers, name, <<>>, Spread(opt, [maxAge |-> 0]))

\* setSealedCookie with serializeSealed given opt as it is, without a path
\* of "/" under it.
setSealedCookieWithoutDefault(headers, value, secret, name, opt, draws) ==
    append(headers, serializeSealed(name, value, secret, opt, draws))

\* setSealedCookie(headers, value, secret, name, opt?), awaited.
setSealedCookie(headers, value, secret, name, opt, draws) ==
    append(headers,
           serializeSealed(name, value, secret, Spread([path |-> <<"/">>], opt),
                           draws))

(***************************************************************************)
(* The facade with name prefixes                                           *)
(***************************************************************************)

\* let finalKey = key, and no more: the key whatever the prefix.
finalKeyUnprefixed(key, prefix) == key

\* let finalKey = key; if (prefix === "secure") ...; else if (prefix ===
\* "host") ...: the name a prefix gives; prefix is Undefined when left out.
finalKey(key, prefix) ==
    IF prefix = <<"s", "e", "c", "u", "r", "e">>
    THEN <<"_", "_", "S", "e", "c", "u", "r", "e", "-">> \o key
    ELSE IF prefix = <<"h", "o", "s", "t">> THEN <<"_", "_", "H", "o", "s", "t", "-">> \o key
    ELSE key

\* opt?.prefix
PrefixOf(opt) == IF "prefix" \in DOMAIN opt THEN opt.prefix ELSE Undefined

\* { path: "/", ...opt } under every prefix: the caller's values as given.
PrefixedOptionsAsGiven(opt) == Spread([path |-> <<"/">>], opt)

\* The options setCookie and setSignedCookie serialize with under a prefix.
PrefixedOptions(opt) ==
    IF PrefixOf(opt) = <<"s", "e", "c", "u", "r", "e">>
    THEN Spread(Spread([path |-> <<"/">>], opt), [secure |-> TRUE])
    ELSE IF PrefixOf(opt) = <<"h", "o", "s", "t">>
    THEN Spread(opt, [path |-> <<"/">>, secure |-> TRUE, domain |-> Undefined])
    ELSE Spread([path |-> <<"/">>], opt)

\* getCookie(headers, key, prefix?) of the facade with prefixes.
getCookieWithPrefix(headers, key, prefix) ==
    IF NoCookie(headers) THEN Returned(Undefined)
    ELSE With(parse(headers.cookie, finalKey(key, prefix)), LAMBDA obj :
             IF obj.threw THEN obj
             ELSE Returned(ObjectGet(obj.value, finalKey(key, prefix))))

\* getSignedCookie(headers, secret, key, prefix?) of the facade with
\* prefixes, awaited.
getSignedCookieWithPrefix(headers, secret, key, prefix) ==
    IF NoCookie(headers) THEN Returned(Undefined)
    ELSE With(parseSigned(headers.cookie, secret, finalKey(key, prefix)), LAMBDA obj :
             IF obj.threw THEN Thrown(obj.value)
             ELSE Returned(ObjectGet(obj.value, finalKey(key, prefix))))

\* setCookie(headers, name, value, opt?) of the facade with prefixes.
setCookieWithPrefix(headers, name, value, opt) ==
    append(headers, serialize(finalKey(name, PrefixOf(opt)), value,
                              PrefixedOptions(opt)))

\* setSignedCookie(headers, name, value, secret, opt?) of the facade with
\* prefixes, awaited.
setSignedCookieWithPrefix(headers, name, value, secret, opt) ==
    append(headers, serializeSigned(finalKey(name, PrefixOf(opt)), value, secret,
                                    PrefixedOptions(opt)))

(***************************************************************************)
(* The calls and requests the model draws from                             *)
(***************************************************************************)

\* The longest value written in a round trip.
MaxValueLen == 2

\* The most pairs of a Cookie header given to parse.
MaxPairs == 3

\* The random draws run over the seeds 0..MaxSeed.
MaxSeed == 1

\* The most set and delete calls made on a container.
MaxEntries == 2

Strings(alphabet, n) == UNION {[1..k -> alphabet] : k \in 0..n}

Seeds == 0..MaxSeed

SealDraws == [encSalt : Seeds, iv : Seeds, macSalt : Seeds]

\* The draws of a call that is to make none.
NoDraws == [encSalt |-> 0, iv |-> 0, macSalt |-> 0]

Secret1 == <<"k", "1">>

Secret2 == <<"k", "2">>

Secrets == {Secret1, Secret2}

NoOptions == EmptyObject

\* Values of the plain, the signed and the sealed round trip.
PlainValues == Strings({"a", ";", "%", " ", "<e9>"}, MaxValueLen)

SignedValues == Strings({"a", "."}, MaxValueLen)

SealedValues == {<<>>, <<"a">>, <<"a", "*", "b">>, <<"<e9>", " ">>}

\* Names of the plain round trip: an ordinary one, two that serialize also
\* writes as attribute names, and __proto__.
CodecNames == {<<"c">>, <<"P", "a", "t", "h">>, <<"M", "a", "x", "-", "A", "g", "e">>, ProtoKey}

\* Names of the signed and of the sealed round trip.
SignedNames == {<<"c">>, <<"P", "a", "t", "h">>, ProtoKey}

SealedNames == {<<"c">>, <<"P", "a", "t", "h">>}

\* Options of the plain round trip.
CodecOptions ==
    { NoOptions,
      [path |-> <<"/", "a">>],
      [path |-> <<>>],
      [maxAge |-> 15, domain |-> <<"e", ".", "c">>, secure |-> TRUE],
      [domain |-> <<"e", ";", "c", "=", "z">>],
      [path |-> <<"/", "%">>],
      [expires |-> 977653859, httpOnly |-> TRUE, sameSite |-> <<"L", "a", "x">>,
       partitioned |-> TRUE] }

\* Calls of setCookie and deleteCookie.
WriteNames == {<<"c">>, <<"d">>}

WriteValues == {<<>>, <<"a">>, <<"a", " ", "b">>}

WriteOptions == {NoOptions, [path |-> <<"/", "a">>], [maxAge |-> 15, secure |-> TRUE]}

\* s with the character at pos replaced by c.
ReplaceAt(s, pos, c) == [s EXCEPT ![pos] = c]

\* The character k places after c in a base64 alphabet.
Shifted(alphabet, c, k) == alphabet[((SextetOf(alphabet, c) + k) % 64) + 1]

\* pieces joined by sep.
Join(pieces, sep) ==
    Concat([i \in 1..Len(pieces) |->
        IF i = 1 THEN pieces[i] ELSE sep \o pieces[i]])

\* A cookie of a request: its name, its value, the text that stands for the
\* value in the Cookie header, and how the value was made (form, from the
\* payload and the secret).
Cookie(kind, name, value, form, payload, secret) ==
    [kind |-> kind, name |-> name, value |-> value,
     wire |-> encodeURIComponent(value),
     form |-> form, payload |-> payload, secret |-> secret]

\* A cookie sent as the text wire, which no serialize wrote.
PlainCookie(name, wire) ==
    [kind |-> "plain", name |-> name, value |-> wire, wire |-> wire,
     form |-> "plain", payload |-> wire, secret |-> <<>>]

\* The signed cookies a client may send for payload under secret: the
\* genuine one; the payload changed; a signature character changed (at its
\* first, a middle and its last place before the padding, there by the
\* bits atob discards or by others); a character no base64 has; the value
\* without its signature; the signature a character short, a character
\* long, or without its padding.
SignedCookies(name, payload, secret) ==
    With(makeSignature(payload, secret), LAMBDA sig :
    LET signed(form, value) == Cookie("signed", name, value, form, payload, secret)
    IN  { signed("genuine", payload \o <<".">> \o sig),
          signed("payload", payload \o <<"x", ".">> \o sig),
          signed("bare", payload),
          signed("short", payload \o <<".">> \o SubSeq(sig, 2, 44)),
          signed("long", payload \o <<".", "A">> \o sig),
          signed("unpadded", payload \o <<".">> \o ReplaceAt(sig, 44, "A")),
          signed("garbage", payload \o <<".">> \o ReplaceAt(sig, 1, "!")),
          signed("spare", payload \o <<".">>
                     \o ReplaceAt(sig, 43, Shifted(Base64Alphabet, sig[43], 1))) }
        \cup { signed("signature", payload \o <<".">>
                  \o ReplaceAt(sig, pos, Shifted(Base64Alphabet, sig[pos], 4))) :
               pos \in {1, 22, 43} })

\* The fields of the sealed string of payload under secret.
SealedFields(payload, secret) == split(seal(payload, secret, NoDraws), "*")

\* The places of a sealed string that hold a character of a field.
FieldPlaces(sealed) == {i \in 1..Len(sealed) : sealed[i] # "*"}

\* The sealed cookies a client may send: the genuine one; one character of
\* one field changed, at every place and into a character of the field's
\* alphabet or into a quote; another number of fields; a ciphertext that
\* does not decrypt under a mac that is right.
SealedCookies(name, payload, secret) ==
    With(SealedFields(payload, secret), LAMBDA fields :
    With(Join(fields, <<"*">>), LAMBDA sealed :
    With(fields[1] \o <<"*">> \o fields[2] \o <<"*", "A", "A", "A", "A">>, LAMBDA base :
    With(hmacWithPassword(secret, Spread(integrity, [salt |-> fields[4]]),
                          base, NoDraws), LAMBDA mac :
    LET sealedAs(form, value) == Cookie("sealed", name, value, form, payload, secret)
    IN  { sealedAs("genuine", sealed),
          sealedAs("cipher", base \o <<"*">> \o fields[4] \o <<"*">> \o mac.digest) }
        \cup { sealedAs("byte", ReplaceAt(sealed, pos,
                                          IF sealed[pos] = "0" THEN "1" ELSE "0")) :
               pos \in FieldPlaces(sealed) }
        \cup { sealedAs("byte", ReplaceAt(sealed, pos, "\"")) :
               pos \in FieldPlaces(sealed) }
        \cup { sealedAs("fields", Join(SubSeq(fields, 1, n), <<"*">>)) :
               n \in {1, 2, 4} }
        \cup { sealedAs("fields", sealed \o <<"*", "x">>) }))))

\* The sealed strings a caller may give to unseal, from the seal of payload
\* under secret: the genuine one; a ciphertext that does not decrypt under
\* a mac that is right; four fields and six; the last character of the mac
\* changed, and the mac a character short; the first field empty under a
\* mac that is right; the fourth field empty under the mac of the key that
\* PBKDF2 derives from the empty salt.
SealedStrings(payload, secret) ==
    With(SealedFields(payload, secret), LAMBDA fields :
    With(Join(fields, <<"*">>), LAMBDA sealed :
    With(<<"*">> \o fields[2] \o <<"*">> \o fields[3], LAMBDA unsalted :
    With(fields[1] \o <<"*">> \o fields[2] \o <<"*", "A", "A", "A", "A">>, LAMBDA base :
    With(pbkdf2(secret, fields[4], integrity.iterations, 32), LAMBDA salted :
    With(pbkdf2(secret, <<>>, integrity.iterations, 32), LAMBDA saltless :
        { sealed,
          base \o <<"*">> \o fields[4] \o <<"*">>
          \o base64urlEncode(HmacSha256(salted, stringToBuffer(base))),
          Join(SubSeq(fields, 1, 4), <<"*">>),
          sealed \o <<"*", "x">>,
          ReplaceAt(sealed, Len(sealed),
                    Shifted(Base64UrlAlphabet, sealed[Len(sealed)], 1)),
          SubSeq(sealed, 1, Len(sealed) - 1),
          unsalted \o <<"*">> \o fields[4] \o <<"*">>
          \o base64urlEncode(HmacSha256(salted, stringToBuffer(unsalted))),
          fields[1] \o unsalted \o <<"*", "*">>
          \o base64urlEncode(HmacSha256(saltless,
                 stringToBuffer(fields[1] \o unsalted))) }))))))

\* The cookie a request names c.
FirstCookies ==
    UNION {SignedCookies(<<"c">>, payload, Secret1) : payload \in {<<"a", ".", "b">>, <<>>}}
    \cup SealedCookies(<<"c">>, <<"s">>, Secret1)
    \cup {PlainCookie(<<"c">>, wire) : wire \in {<<"v">>, <<"%">>, <<"a", "*", "b">>}}

\* The cookie a request may send along, named d.
SecondCookies ==
    { Cookie("signed", <<"d">>, <<"p", ".">> \o makeSignature(<<"p">>, Secret1), "genuine",
             <<"p">>, Secret1),
      Cookie("sealed", <<"d">>, seal(<<"t">>, Secret1, NoDraws), "genuine", <<"t">>, Secret1),
      PlainCookie(<<"d">>, <<"v">>) }

\* The cookies of a request: one, or one with another after it; a changed
\* character of a sealed cookie is sent alone.
Jars ==
    {<<first>> : first \in FirstCookies}
    \cup {<<first, second>> :
            first \in {f \in FirstCookies : f.form # "byte"},
            second \in SecondCookies}

\* The Cookie header of a request.
CookieHeader(jar) ==
    Join([i \in 1..Len(jar) |-> jar[i].name \o <<"=">> \o jar[i].wire],
         <<";", " ">>)

Requests == {[sent |-> jar, cookie |-> CookieHeader(jar)] : jar \in Jars}

\* Options of the set calls of the facade with prefixes: each prefix alone,
\* against a secure of false, against a path and a domain, and with
\* attributes the prefix does not touch; and calls without a prefix.
PrefixOptions ==
    { NoOptions,
      [path |-> <<"/", "a">>, secure |-> FALSE],
      [prefix |-> <<"s", "e", "c", "u", "r", "e">>],
      [prefix |-> <<"s", "e", "c", "u", "r", "e">>, secure |-> FALSE],
      [prefix |-> <<"s", "e", "c", "u", "r", "e">>, path |-> <<"/", "a">>, domain |-> <<"e", ".", "c">>],
      [prefix |-> <<"h", "o", "s", "t">>],
      [prefix |-> <<"h", "o", "s", "t">>, path |-> <<"/", "a">>, domain |-> <<"e", ".", "c">>,
       secure |-> FALSE],
      [prefix |-> <<"h", "o", "s", "t">>, path |-> <<>>, maxAge |-> 15, httpOnly |-> TRUE] }

\* The requests read with a prefix: cookies named c, __Secure-c and
\* __Host-c, each there or not, all plain or all signed under Secret1.
PrefixRequests ==
    LET names == << <<"c">>,
                    <<"_", "_", "S", "e", "c", "u", "r", "e", "-", "c">>,
                    <<"_", "_", "H", "o", "s", "t", "-", "c">> >>
        values == << <<"n">>, <<"s">>, <<"h">> >>
        cookie(signed, i) ==
            IF signed
            THEN Cookie("signed", names[i],
                        values[i] \o <<".">> \o makeSignature(values[i], Secret1),
                        "genuine", values[i], Secret1)
            ELSE PlainCookie(names[i], values[i])
        jar(signed, there) ==
            SelectSeq([i \in 1..3 |-> cookie(signed, i)],
                      LAMBDA c : \E i \in there : c.name = names[i])
    IN  { [sent |-> jar(signed, there), cookie |-> CookieHeader(jar(signed, there))] :
          signed \in BOOLEAN, there \in SUBSET (1..3) }

\* The key a get is called with (Undefined: none), among them one no
\* request sends and one every object inherits.
Keys == {Undefined, <<"c">>, <<"d">>, <<"x">>, <<"t", "o", "S", "t", "r", "i", "n", "g">>}

\* The cookie pair a client takes from a Set-Cookie entry and sends back.
CookiePair(entry, name) ==
    name \o <<"=">> \o split(split(entry, ";")[1], "=")[2]

Last(s) == s[Len(s)]

(***************************************************************************)
(* The state machine                                                       *)
(***************************************************************************)

VARIABLES
    headers,    \* the Headers container the facade is called on
    calls,      \* the set and delete calls made on it, in call order
    sent,       \* the cookies of the request that gave the Cookie header
    out,        \* the last call of a codec or a get, with what it gave
    pending,    \* the places in calls of the set calls suspended at their await
    defaults,   \* the encryption and integrity objects of iron-webcrypto
    drawn,      \* how many times crypto.getRandomValues has been called
    finished    \* the seal and unseal calls that have returned or thrown

vars == <<headers, calls, sent, out, pending, defaults, drawn, finished>>

Idle == [fn |-> "idle"]

Init ==
    /\ headers = NewHeaders
    /\ calls = <<>>
    /\ sent = <<>>
    /\ out = Idle
    /\ pending = {}
    /\ defaults = [encryption |-> encryption, integrity |-> integrity]
    /\ drawn = 0
    /\ finished = <<>>

\* setCookie(headers, name, value, opt)
SetCookie(name, value, opt) ==
    /\ Len(calls) < MaxEntries
    /\ headers' = setCookie(headers, name, value, opt)
    /\ calls' = Append(calls, [fn |-> "setCookie", name |-> name,
                               value |-> value, opt |-> opt])
    /\ UNCHANGED <<sent, out, pending, defaults, drawn, finished>>

\* deleteCookie(headers, name, opt)
DeleteCookie(name, opt) ==
    /\ Len(calls) < MaxEntries
    /\ headers' = deleteCookie(headers, name, opt)
    /\ calls' = Append(calls, [fn |-> "deleteCookie", name |-> name,
                               value |-> <<>>, opt |-> opt])
    /\ UNCHANGED <<sent, out, pending, defaults, drawn, finished>>

\* setSignedCookie(headers, value, secret, name, opt), not awaited: the call
\* runs to its await and suspends there, with no entry appended yet.
SetSignedCookieStart(value, secret, name, opt) ==
    /\ Len(calls) < MaxEntries
    /\ calls' = Append(calls, [fn |-> "setSignedCookie", name |-> name,
                               value |-> value, opt |-> opt, secret |-> secret])
    /\ pending' = pending \cup {Len(calls) + 1}
    /\ UNCHANGED <<headers, sent, out, defaults, drawn, finished>>

\* setSealedCookie(headers, value, secret, name, opt), not awaited.
SetSealedCookieStart(value, secret, name, opt) ==
    /\ Len(calls) < MaxEntries
    /\ calls' = Append(calls, [fn |-> "setSealedCookie", name |-> name,
                               value |-> value, opt |-> opt, secret |-> secret])
    /\ pending' = pending \cup {Len(calls) + 1}
    /\ UNCHANGED <<headers, sent, out, defaults, drawn, finished>>

\* The promise of serializeSigned settles: the suspended call i resumes and
\* appends its entry to the container as it is then.
SetSignedCookieResume(i) ==
    /\ i \in pending
    /\ calls[i].fn = "setSignedCookie"
    /\ headers' = setSignedCookie(headers, calls[i].value, calls[i].secret,
                                  calls[i].name, calls[i].opt)
    /\ pending' = pending \ {i}
    /\ UNCHANGED <<calls, sent, out, defaults, drawn, finished>>

\* The promise of serializeSealed settles: the suspended call i resumes.
SetSealedCookieResume(i) ==
    /\ i \in pending
    /\ calls[i].fn = "setSealedCookie"
    /\ headers' = setSealedCookie(headers, calls[i].value, calls[i].secret,
                                  calls[i].name, calls[i].opt, NoDraws)
    /\ pending' = pending \ {i}
    /\ UNCHANGED <<calls, sent, out, defaults, drawn, finished>>

\* A request arrives: the container is made with its Cookie header.
Receive(request) ==
    /\ out = Idle
    /\ headers = NewHeaders
    /\ headers' = [headers EXCEPT !.cookie = request.cookie]
    /\ sent' = request.sent
    /\ UNCHANGED <<calls, out, pending, defaults, drawn, finished>>

\* getCookie(headers, key)
GetCookie(key) ==
    /\ out = Idle
    /\ \E got \in {getCookie(headers, key)} :
           out' = [fn |-> "getCookie", key |-> key, secret |-> <<>>,
                   threw |-> got.threw, value |-> got.value, tried |-> {}]
    /\ UNCHANGED <<headers, calls, sent, pending, defaults, drawn, finished>>

\* await getSignedCookie(headers, secret, key)
GetSignedCookie(secret, key) ==
    /\ out = Idle
    /\ \E got \in {getSignedCookie(headers, secret, key)} :
           out' = [fn |-> "getSignedCookie", key |-> key, secret |-> secret,
                   threw |-> got.threw, value |-> got.value, tried |-> got.tried]
    /\ UNCHANGED <<headers, calls, sent, pending, defaults, drawn, finished>>

\* await getSealedCookie(headers, secret, key)
GetSealedCookie(secret, key) ==
    /\ out = Idle
    /\ \E got \in {getSealedCookie(headers, secret, key, NoDraws)} :
           out' = [fn |-> "getSealedCookie", key |-> key, secret |-> secret,
                   threw |-> got.threw, value |-> got.value, tried |-> got.tried]
    /\ UNCHANGED <<headers, calls, sent, pending, defaults, drawn, finished>>

\* setCookie(headers, name, value, opt) of the facade with prefixes, on the
\* container of a response
SetCookieWithPrefix(name, value, opt) ==
    /\ out = Idle
    /\ headers.cookie = Undefined
    /\ Len(calls) < MaxEntries
    /\ headers' = setCookieWithPrefix(headers, name, value, opt)
    /\ calls' = Append(calls, [fn |-> "setCookieWithPrefix", name |-> name,
                               value |-> value, opt |-> opt])
    /\ UNCHANGED <<sent, out, pending, defaults, drawn, finished>>

\* await setSignedCookie(headers, name, value, secret, opt) of the facade
\* with prefixes, on the container of a response
SetSignedCookieWithPrefix(name, value, secret, opt) ==
    /\ out = Idle
    /\ headers.cookie = Undefined
    /\ Len(calls) < MaxEntries
    /\ headers' = setSignedCookieWithPrefix(headers, name, value, secret, opt)
    /\ calls' = Append(calls, [fn |-> "setSignedCookieWithPrefix", name |-> name,
                               value |-> value, opt |-> opt, secret |-> secret])
    /\ UNCHANGED <<sent, out, pending, defaults, drawn, finished>>

\* getCookie(headers, key, prefix) of the facade with prefixes, on the
\* container of a request
GetCookieWithPrefix(key, prefix) ==
    /\ out = Idle
    /\ calls = <<>>
    /\ \E got \in {getCookieWithPrefix(headers, key, prefix)} :
           out' = [fn |-> "getCookieWithPrefix", key |-> key, prefix |-> prefix,
                   secret |-> <<>>, threw |-> got.threw, value |-> got.value]
    /\ UNCHANGED <<headers, calls, sent, pending, defaults, drawn, finished>>

\* await getSignedCookie(headers, secret, key, prefix) of the facade with
\* prefixes, on the container of a request
GetSignedCookieWithPrefix(secret, key, prefix) ==
    /\ out = Idle
    /\ calls = <<>>
    /\ \E got \in {getSignedCookieWithPrefix(headers, secret, key, prefix)} :
           out' = [fn |-> "getSignedCookieWithPrefix", key |-> key, prefix |-> prefix,
                   secret |-> secret, threw |-> got.threw, value |-> got.value]
    /\ UNCHANGED <<headers, calls, sent, pending, defaults, drawn, finished>>

\* parse(serialize(name, value, opt), filter), or the same over the entry
\* setCookie appends.
PlainRoundTrip(name, value, opt, viaSet, filtered) ==
    /\ out = Idle
    /\ \E text \in {IF viaSet
                    THEN Last(setCookie(NewHeaders, name, value, opt).setCookie)
                    ELSE serialize(name, value, opt)} :
       \E back \in {parse(text, IF filtered THEN name ELSE Undefined)} :
           out' = [fn |-> "plain", name |-> name, value |-> value, opt |-> opt,
                   viaSet |-> viaSet, filtered |-> filtered, text |-> text,
                   threw |-> back.threw, back |-> back.value]
    /\ UNCHANGED <<headers, calls, sent, pending, defaults, drawn, finished>>

\* parseSigned(serializeSigned(name, value, secret), secret), or the same
\* over the entry setSignedCookie appends.
SignedRoundTrip(name, value, secret, viaSet) ==
    /\ out = Idle
    /\ \E text \in {IF viaSet
                    THEN Last(setSignedCookie(NewHeaders, value, secret, name,
                                              NoOptions).setCookie)
                    ELSE serializeSigned(name, value, secret, NoOptions)} :
       \E back \in {parseSigned(text, secret, Undefined)} :
           out' = [fn |-> "signed", name |-> name, value |-> value,
                   secret |-> secret, viaSet |-> viaSet, text |-> text,
                   threw |-> back.threw, back |-> back.value]
    /\ UNCHANGED <<headers, calls, sent, pending, defaults, drawn, finished>>

\* parseSealed(serializeSealed(name, value, secret), secret)[name]; or
\* setSealedCookie, the client sending the cookie pair of the entry back,
\* and getSealedCookie(headers, secret, name).
SealedRoundTrip(name, value, secret, draws, viaSet) ==
    /\ out = Idle
    /\ \E text \in {IF viaSet
                    THEN CookiePair(Last(setSealedCookie(NewHeaders, value, secret,
                                                          name, NoOptions,
                                                          draws).setCookie), name)
                    ELSE serializeSealed(name, value, secret, NoOptions, draws)} :
       \E back \in {IF viaSet
                    THEN getSealedCookie([NewHeaders EXCEPT !.cookie = text],
                                         secret, name, NoDraws)
                    ELSE parseSealed(text, secret, Undefined, NoDraws)} :
           out' = [fn |-> "sealed", name |-> name, value |-> value,
                   secret |-> secret, viaSet |-> viaSet, text |-> text,
                   threw |-> back.threw,
                   read |-> IF back.threw \/ viaSet THEN back.value
                            ELSE ObjectGet(back.value, name)]
    /\ UNCHANGED <<headers, calls, sent, pending, defaults, drawn, finished>>

\* serialize(name, value, opt)
Serialize(name, value, opt) ==
    /\ out = Idle
    /\ out' = [fn |-> "serialize", name |-> name, value |-> value, opt |-> opt,
               text |-> serialize(name, value, opt)]
    /\ UNCHANGED <<headers, calls, sent, pending, defaults, drawn, finished>>

\* parse(cookie, name) for the Cookie header that holds the pairs
Parse(pairs, name) ==
    /\ out = Idle
    /\ \E cookie \in {Join([i \in 1..Len(pairs) |-> pairs[i].text], <<";", " ">>)} :
       \E got \in {parse(cookie, name)} :
           out' = [fn |-> "parse", pairs |-> pairs, cookie |-> cookie, name |-> name,
                   threw |-> got.threw, value |-> got.value]
    /\ UNCHANGED <<headers, calls, sent, pending, defaults, drawn, finished>>

\* seal that leaves the draws it made to the next call.
SealReusingDraws(value, password) ==
    /\ out = Idle
    /\ Len(finished) < MaxEntries
    /\ \E draws \in {[encSalt |-> drawn, iv |-> drawn + 1, macSalt |-> drawn + 2]} :
           finished' = Append(finished,
               [fn |-> "seal", value |-> value, password |-> password,
                first |-> drawn, draws |-> draws,
                result |-> Returned(seal(value, password, draws))])
    /\ UNCHANGED <<headers, calls, sent, out, pending, defaults, drawn>>

\* seal(value, password): the three draws it makes are the next three of
\* crypto.getRandomValues.
Seal(value, password) ==
    /\ out = Idle
    /\ Len(finished) < MaxEntries
    /\ \E draws \in {[encSalt |-> drawn, iv |-> drawn + 1, macSalt |-> drawn + 2]} :
           finished' = Append(finished,
               [fn |-> "seal", value |-> value, password |-> password,
                first |-> drawn, draws |-> draws,
                result |-> Returned(seal(value, password, draws))])
    /\ drawn' = drawn + generateKeyDraws(defaults.encryption)
                       + generateKeyDraws(defaults.integrity)
    /\ UNCHANGED <<headers, calls, sent, out, pending, defaults>>

\* unseal(sealed, password) up to its first await: the value is split and
\* its fields are counted.
UnsealCall(sealed, password) ==
    /\ out = Idle
    /\ Len(finished) < MaxEntries
    /\ \E call \in {[fn |-> "unseal", at |-> "hmacWithPassword", sealed |-> sealed,
                      password |-> password, parts |-> split(sealed, "*"),
                      steps |-> <<"split">>, first |-> drawn,
                      macOptions |-> <<>>, digest |-> <<>>, turns |-> 0,
                      decryptOptions |-> <<>>, result |-> Undefined]} :
           IF Len(call.parts) # 5
           THEN /\ finished' = Append(finished,
                       [call EXCEPT !.at = "thrown",
                                    !.result = Thrown(<<"I", "n", "c", "o", "r",
                                                        "r", "e", "c", "t">>)])
                /\ out' = out
           ELSE /\ out' = call
                /\ finished' = finished
    /\ UNCHANGED <<headers, calls, sent, pending, defaults, drawn>>

\* unseal that goes on to decrypt whatever the comparison gave.
UnsealHmacUnchecked ==
    /\ out.fn = "unseal"
    /\ out.at = "hmacWithPassword"
    /\ \E macOptions \in {Spread(defaults.integrity, [salt |-> out.parts[4]])} :
       \E mac \in {hmacWithPassword(out.password, macOptions,
                       out.parts[1] \o <<"*">> \o out.parts[2] \o <<"*">> \o out.parts[3],
                       [salt |-> drawn, iv |-> drawn])} :
       \E compared \in {fixedTimeComparisonTurns(mac.digest, out.parts[5])} :
           /\ out' = [out EXCEPT !.at = "decrypt",
                                 !.steps = Append(@, "hmacWithPassword"),
                                 !.macOptions = macOptions,
                                 !.digest = mac.digest,
                                 !.turns = compared.turns]
           /\ finished' = finished
           /\ drawn' = drawn + generateKeyDraws(macOptions)
    /\ UNCHANGED <<headers, calls, sent, pending, defaults>>

\* unseal from its first await to its second: the mac of the first three
\* fields is made under the salt of the fourth and compared with the fifth.
UnsealHmac ==
    /\ out.fn = "unseal"
    /\ out.at = "hmacWithPassword"
    /\ \E macOptions \in {Spread(defaults.integrity, [salt |-> out.parts[4]])} :
       \E mac \in {hmacWithPassword(out.password, macOptions,
                       out.parts[1] \o <<"*">> \o out.parts[2] \o <<"*">> \o out.parts[3],
                       [salt |-> drawn, iv |-> drawn])} :
       \E compared \in {fixedTimeComparisonTurns(mac.digest, out.parts[5])} :
       \E call \in {[out EXCEPT !.steps = Append(@, "hmacWithPassword"),
                                !.macOptions = macOptions,
                                !.digest = mac.digest,
                                !.turns = compared.turns]} :
           /\ IF ~compared.result
              THEN /\ finished' = Append(finished,
                          [call EXCEPT !.at = "thrown",
                                       !.result = Thrown(<<"B", "a", "d", " ",
                                                           "h", "m", "a", "c">>)])
                   /\ out' = Idle
              ELSE /\ out' = [call EXCEPT !.at = "decrypt"]
                   /\ finished' = finished
           /\ drawn' = drawn + generateKeyDraws(macOptions)
    /\ UNCHANGED <<headers, calls, sent, pending, defaults>>

\* unseal that keeps the options of its decryption in the encryption object
\* of the module.
UnsealDecryptKeepingOptions ==
    /\ out.fn = "unseal"
    /\ out.at = "decrypt"
    /\ \E iv \in {base64urlDecode(out.parts[2])} :
       \E encrypted \in {base64urlDecode(out.parts[3])} :
           IF ~iv.ok \/ ~encrypted.ok
           THEN /\ finished' = Append(finished,
                       [out EXCEPT !.at = "thrown",
                                   !.steps = Append(@, "base64urlDecode"),
                                   !.result = Thrown(<<"I", "n", "v", "a", "l", "i", "d">>)])
                /\ drawn' = drawn
                /\ defaults' = defaults
           ELSE
       \E decryptOptions \in {Spread(defaults.encryption,
                                     [salt |-> out.parts[1], iv |-> iv.bytes])} :
       \E decrypted \in {decrypt(out.password, decryptOptions, encrypted.bytes,
                                 [salt |-> drawn, iv |-> drawn])} :
                /\ finished' = Append(finished,
                       [out EXCEPT !.at = IF decrypted.threw THEN "thrown" ELSE "returned",
                                   !.steps = @ \o <<"base64urlDecode", "decrypt">>,
                                   !.decryptOptions = decryptOptions,
                                   !.result = decrypted])
                /\ drawn' = drawn + generateKeyDraws(decryptOptions)
                /\ defaults' = [defaults EXCEPT !.encryption = decryptOptions]
    /\ out' = Idle
    /\ UNCHANGED <<headers, calls, sent, pending>>

\* unseal from its second await on: the IV and the ciphertext are decoded
\* and decrypted under the salt of the first field.
UnsealDecrypt ==
    /\ out.fn = "unseal"
    /\ out.at = "decrypt"
    /\ \E iv \in {base64urlDecode(out.parts[2])} :
       \E encrypted \in {base64urlDecode(out.parts[3])} :
           IF ~iv.ok \/ ~encrypted.ok
           THEN /\ finished' = Append(finished,
                       [out EXCEPT !.at = "thrown",
                                   !.steps = Append(@, "base64urlDecode"),
                                   !.result = Thrown(<<"I", "n", "v", "a", "l", "i", "d">>)])
                /\ drawn' = drawn
           ELSE
       \E decryptOptions \in {Spread(defaults.encryption,
                                     [salt |-> out.parts[1], iv |-> iv.bytes])} :
       \E decrypted \in {decrypt(out.password, decryptOptions, encrypted.bytes,
                                 [salt |-> drawn, iv |-> drawn])} :
                /\ finished' = Append(finished,
                       [out EXCEPT !.at = IF decrypted.threw THEN "thrown" ELSE "returned",
                                   !.steps = @ \o <<"base64urlDecode", "decrypt">>,
                                   !.decryptOptions = decryptOptions,
                                   !.result = decrypted])
                /\ drawn' = drawn + generateKeyDraws(decryptOptions)
    /\ out' = Idle
    /\ UNCHANGED <<headers, calls, sent, pending, defaults>>

\* fixedTimeComparison(a, b)
FixedTimeComparison(a, b) ==
    /\ out = Idle
    /\ finished = <<>>
    /\ \E compared \in {fixedTimeComparisonTurns(a, b)} :
           out' = [fn |-> "fixedTimeComparison", a |-> a, b |-> b,
                   result |-> compared.result, turns |-> compared.turns]
    /\ UNCHANGED <<headers, calls, sent, pending, defaults, drawn, finished>>

NextWrite ==
    \/ \E name \in WriteNames, value \in WriteValues, opt \in WriteOptions :
           SetCookie(name, value, opt)
    \/ \E name \in WriteNames, opt \in WriteOptions : DeleteCookie(name, opt)

\* The calls of the facade with prefixes: sets on a response, or one
\* request and one get on it.
NextPrefix ==
    \/ \E name \in WriteNames, opt \in PrefixOptions :
           SetCookieWithPrefix(name, <<"a", " ", "b">>, opt)
    \/ \E opt \in PrefixOptions :
           SetSignedCookieWithPrefix(<<"c">>, <<"a">>, Secret1, opt)
    \/ \E request \in PrefixRequests : Receive(request)
    \/ \E key \in {<<"c">>, <<"d">>}, prefix \in {Undefined, <<"s", "e", "c", "u", "r", "e">>, <<"h", "o", "s", "t">>} :
           GetCookieWithPrefix(key, prefix)
    \/ \E secret \in Secrets, key \in {<<"c">>, <<"d">>},
          prefix \in {Undefined, <<"s", "e", "c", "u", "r", "e">>, <<"h", "o", "s", "t">>} :
           GetSignedCookieWithPrefix(secret, key, prefix)

\* Set calls that the caller does not await before it makes the next one.
NextAsync ==
    \/ \E name \in WriteNames, opt \in {NoOptions, [path |-> <<"/", "a">>]} :
           SetCookie(name, <<"a">>, opt)
    \/ \E name \in WriteNames, opt \in {NoOptions, [path |-> <<"/", "a">>]} :
           SetSignedCookieStart(<<"a">>, Secret1, name, opt)
    \/ \E name \in WriteNames, opt \in {NoOptions, [path |-> <<"/", "a">>]} :
           SetSealedCookieStart(<<"a">>, Secret1, name, opt)
    \/ \E i \in 1..MaxEntries : SetSignedCookieResume(i)
    \/ \E i \in 1..MaxEntries : SetSealedCookieResume(i)

\* Every call of the facade on one container: sets and deletes, signed and
\* sealed sets that overlap, among them a signed set whose secret the key
\* import rejects, and a get; the container may be that of a request.
NextContainer ==
    \/ \E name \in WriteNames : SetCookie(name, <<"a">>, NoOptions)
    \/ DeleteCookie(<<"c">>, NoOptions)
    \/ \E secret \in {Secret1, <<>>} :
           SetSignedCookieStart(<<"a">>, secret, <<"c">>, NoOptions)
    \/ SetSealedCookieStart(<<"a">>, Secret1, <<"d">>, NoOptions)
    \/ \E i \in 1..MaxEntries : SetSignedCookieResume(i)
    \/ \E i \in 1..MaxEntries : SetSealedCookieResume(i)
    \/ Receive([sent |-> <<PlainCookie(<<"c">>, <<"v">>)>>, cookie |-> <<"c", "=", "v">>])
    \/ \E key \in {Undefined, <<"c">>} : GetCookie(key)
    \/ \E key \in {Undefined, <<"c">>} : GetSignedCookie(Secret1, key)
    \/ \E key \in {Undefined, <<"c">>} : GetSealedCookie(Secret1, key)

\* A behaviour makes one get, or one round trip: out holds what it gave.
NextRead ==
    \/ \E request \in Requests : Receive(request)
    \/ \E key \in Keys : GetCookie(key)
    \/ \E secret \in Secrets, key \in Keys : GetSignedCookie(secret, key)
    \/ \E secret \in Secrets, key \in Keys : GetSealedCookie(secret, key)

NextCodec ==
    \/ \E name \in CodecNames, value \in PlainValues, opt \in CodecOptions,
          viaSet \in BOOLEAN, filtered \in BOOLEAN :
           PlainRoundTrip(name, value, opt, viaSet, filtered)
    \/ \E name \in SignedNames, value \in SignedValues, secret \in Secrets,
          viaSet \in BOOLEAN :
           SignedRoundTrip(name, value, secret, viaSet)
    \/ \E name \in SealedNames, value \in SealedValues, secret \in Secrets,
          draws \in SealDraws, viaSet \in BOOLEAN :
           SealedRoundTrip(name, value, secret, draws, viaSet)

\* Calls of iron-webcrypto, one after the other: each unseal runs from
\* await to await.  A call of serialize, of parse, or of serializeSigned
\* and parseSigned may follow them.
NextIron ==
    \/ \E password \in Secrets : Seal(<<"s">>, password)
    \/ \E sealed \in SealedStrings(<<"s">>, Secret1) : UnsealCall(sealed, Secret1)
    \/ UnsealCall(seal(<<"s">>, Secret1, NoDraws), Secret2)
    \/ UnsealHmac
    \/ UnsealDecrypt
    \/ \E a \in Strings({"a", "b"}, MaxValueLen), b \in Strings({"a", "b"}, MaxValueLen) :
           FixedTimeComparison(a, b)
    \/ Serialize(<<"c">>, <<"a", " ">>, [maxAge |-> 15])
    \/ Parse(<<[text |-> <<"c", "=", "a">>, name |-> <<"c">>, value |-> <<"a">>,
                kind |-> "valid"]>>, Undefined)
    \/ SignedRoundTrip(<<"c">>, <<"a">>, Secret1, FALSE)

\* The functions of utils applied to inputs drawn for them.  The options of
\* serialize: every set of the eight options, each with the values it may
\* have (a maxAge in tenths of a second: 1.5, 0 and -1; an empty domain; a
\* secure of false).  The headers of parse: up to MaxPairs pairs, each one
\* valid (among them an encoded and a quoted empty value), or without "=",
\* with a character no name has, with a character no value has, or with a
\* "%" that encodes nothing; text is the pair, name and value what it says,
\* and kind what it is malformed in.  And headers of one or two pairs whose
\* names and values bear spaces, "=", quotes, a comma, a backslash or a
\* control character, under no filter, the empty filter or the filter c.
NextUtils ==
    \/ \E given \in SUBSET {"maxAge", "domain", "path", "expires", "httpOnly",
                            "secure", "sameSite", "partitioned"},
          maxAge \in {15, 0, -10}, domain \in {<<"e", ".", "c">>, <<>>},
          secure \in BOOLEAN :
           Serialize(<<"c">>, <<"a", " ">>,
                     [f \in given |->
                         [maxAge |-> maxAge, domain |-> domain, path |-> <<"/", "a">>,
                          expires |-> 977653859, httpOnly |-> TRUE, secure |-> secure,
                          sameSite |-> <<"L", "a", "x">>, partitioned |-> TRUE][f]])
    \/ \E n \in 1..MaxPairs :
       \E pairs \in [1..n ->
              { [text |-> <<"c", "=", "a">>, name |-> <<"c">>, value |-> <<"a">>, kind |-> "valid"],
                [text |-> <<"c", "=", "b">>, name |-> <<"c">>, value |-> <<"b">>, kind |-> "valid"],
                [text |-> <<"d", "=", "%", "4", "1">>, name |-> <<"d">>, value |-> <<"A">>, kind |-> "valid"],
                [text |-> <<"c", "=", "\"", "\"">>, name |-> <<"c">>, value |-> <<>>, kind |-> "valid"],
                [text |-> <<"c">>, name |-> <<"c">>, value |-> <<>>, kind |-> "equals"],
                [text |-> <<"c", "@", "=", "a">>, name |-> <<"c", "@">>, value |-> <<"a">>, kind |-> "name"],
                [text |-> <<"c", "=", "<e9>">>, name |-> <<"c">>, value |-> <<"<e9>">>, kind |-> "value"],
                [text |-> <<"c", "=", "%">>, name |-> <<"c">>, value |-> <<"%">>, kind |-> "encoding"] }] :
       \E name \in {Undefined, <<"c">>, <<"d">>} :
           Parse(pairs, name)
    \/ \E n \in 1..2 :
       \E pairs \in [1..n ->
              { [text |-> <<"d", "=", "b">>, name |-> <<"d">>, value |-> <<"b">>, kind |-> "valid"],
                [text |-> <<"c", " ", "=", "a">>, name |-> <<"c">>, value |-> <<"a">>, kind |-> "valid"],
                [text |-> <<"c", "=", "a", "=", "b">>, name |-> <<"c">>, value |-> <<"a", "=", "b">>, kind |-> "valid"],
                [text |-> <<"=", "a">>, name |-> <<>>, value |-> <<"a">>, kind |-> "name"],
                [text |-> <<"c", "=", "\"", "a", "\"">>, name |-> <<"c">>, value |-> <<"a">>, kind |-> "valid"],
                [text |-> <<"c", "=", "\"", " ", "a", "\"">>, name |-> <<"c">>, value |-> <<" ", "a">>, kind |-> "valid"],
                [text |-> <<"c", "=", "a", " ", "b">>, name |-> <<"c">>, value |-> <<"a", " ", "b">>, kind |-> "valid"],
                [text |-> <<"c", "=", "a", ",", "b">>, name |-> <<"c">>, value |-> <<"a", ",", "b">>, kind |-> "valid"],
                [text |-> <<"c", "=", "\"">>, name |-> <<"c">>, value |-> <<>>, kind |-> "valid"],
                [text |-> <<"c", "=", "\"", "a">>, name |-> <<"c">>, value |-> <<"\"", "a">>, kind |-> "value"],
                [text |-> <<"c", "=", "a", "\"">>, name |-> <<"c">>, value |-> <<"a", "\"">>, kind |-> "value"],
                [text |-> <<"c", "=", "\"", "\"", "a", "\"", "\"">>, name |-> <<"c">>, value |-> <<"\"", "a", "\"">>, kind |-> "value"],
                [text |-> <<"c", "=", "a", "\\", "b">>, name |-> <<"c">>, value |-> <<"a", "\\", "b">>, kind |-> "value"],
                [text |-> <<"c", "=", "a", "<09>", "b">>, name |-> <<"c">>, value |-> <<"a", "<09>", "b">>, kind |-> "value"],
                [text |-> <<"c", "=", "<7f>">>, name |-> <<"c">>, value |-> <<"<7f>">>, kind |-> "value"] }] :
       \E name \in {Undefined, <<>>, <<"c">>} :
           Parse(pairs, name)

Next ==
    \/ NextWrite \/ NextUtils \/ NextPrefix \/ NextAsync \/ NextRead \/ NextCodec
    \/ NextIron \/ NextContainer

\* The facade as a whole.
Spec == Init /\ [][Next]_vars

\* The set and delete calls on one container.
SpecWrite == Init /\ [][NextWrite]_vars

\* The facade with prefixes: sets on a response, or one get on a request.
SpecPrefix == Init /\ [][NextPrefix]_vars

\* Set calls on one container, the asynchronous ones running side by side.
SpecAsync == Init /\ [][NextAsync]_vars

\* One request and one get on it.
SpecRead == Init /\ [][NextRead]_vars

\* One call of a function of utils.
SpecUtils == Init /\ [][NextUtils]_vars

\* One value written and read back.
SpecCodec == Init /\ [][NextCodec]_vars

\* The calls of iron-webcrypto alone.
SpecIron == Init /\ [][NextIron]_vars

\* The calls of the facade on one container.
SpecContainer == Init /\ [][NextContainer]_vars

(***************************************************************************)
(* Properties                                                              *)
(***************************************************************************)

PathDefault == [path |-> <<"/">>]

\* The names of the attributes serialize writes with a value for opt.
AttributeNames(opt) ==
    (IF "maxAge" \in DOMAIN opt /\ opt.maxAge >= 0 THEN {<<"M", "a", "x", "-", "A", "g", "e">>} ELSE {})
    \cup (IF TruthyString(opt, "domain") THEN {<<"D", "o", "m", "a", "i", "n">>} ELSE {})
    \cup (IF TruthyString(opt, "path") THEN {<<"P", "a", "t", "h">>} ELSE {})
    \cup (IF "expires" \in DOMAIN opt THEN {<<"E", "x", "p", "i", "r", "e", "s">>} ELSE {})
    \cup (IF TruthyString(opt, "sameSite") THEN {<<"S", "a", "m", "e", "S", "i", "t", "e">>} ELSE {})

\* The options a plain round trip wrote with.
WrittenOptions == IF out.viaSet THEN Spread(PathDefault, out.opt) ELSE out.opt

TextOptions(opt) == {opt[f] : f \in DOMAIN opt \cap {"domain", "path", "sameSite"}}

\* No text option holds a ";".
NoSemicolon(opt) == \A text \in TextOptions(opt) : ~includes(text, ";")

\* Every text option is well-formed percent-encoding.
Decodable(opt) == \A text \in TextOptions(opt) : decodeURIComponent(text) # URIError

\* The round trip read the value it wrote.
ReadBack == ~out.threw /\ out.name \in DOMAIN out.back /\ out.back[out.name] = out.value

\* C1 (as amended): for every permitted name n other than __proto__, every
\* value v and every options object o whose domain, path and sameSite hold
\* no ";", parse(serialize(n, v, o)) maps n to v unless n is the name of an
\* attribute serialize writes for o (Max-Age, Domain, Path, Expires,
\* SameSite; through setCookie, Path is always one); read without the name
\* as a filter, the text options must also be well-formed percent-encoding.
PlainRoundTripHolds ==
    ( /\ out.fn = "plain"
      /\ out.name # ProtoKey
      /\ out.name \notin AttributeNames(WrittenOptions)
      /\ NoSemicolon(WrittenOptions)
      /\ (out.filtered \/ Decodable(WrittenOptions)) )
    => ReadBack

\* A name that is an attribute name serialize does not write here, and a
\* value that needs its encoding, read back.
PlainRoundTripSeen ==
    /\ out.fn = "plain"
    /\ out.viaSet
    /\ out.name = <<"M", "a", "x", "-", "A", "g", "e">>
    /\ out.opt = [path |-> <<"/", "a">>]
    /\ out.value = <<";", "%">>
    /\ ReadBack

\* C1 as the claim has it: the round trip holds also for a name that is an
\* attribute name serialize writes.
PlainRoundTripAnyName ==
    ( /\ out.fn = "plain"
      /\ out.name # ProtoKey
      /\ NoSemicolon(WrittenOptions)
      /\ Decodable(WrittenOptions) )
    => ReadBack

\* C2 (as amended): for every permitted name n other than __proto__, every
\* value v that is not empty (a value may hold "."), and every secret,
\* parseSigned(serializeSigned(n, v, secret), secret)[n] = v; so it is
\* through setSignedCookie, unless n is Path.
SignedRoundTripHolds ==
    ( /\ out.fn = "signed"
      /\ out.name # ProtoKey
      /\ out.value # <<>>
      /\ (out.viaSet => out.name # <<"P", "a", "t", "h">>) )
    => ReadBack

\* A value of dots read back under the name Path.
SignedRoundTripSeen ==
    /\ out.fn = "signed"
    /\ ~out.viaSet
    /\ out.name = <<"P", "a", "t", "h">>
    /\ out.value = <<".", ".">>
    /\ ReadBack

\* C2 as the claim has it: the empty value is read back as well.
SignedRoundTripAnyValue ==
    (out.fn = "signed" /\ out.name # ProtoKey /\ ~out.viaSet) => ReadBack

\* C3: the value serializeSealed writes is read back by parseSealed, and the
\* one setSealedCookie writes by getSealedCookie, under the same secret.
SealedRoundTripHolds ==
    out.fn = "sealed" => (~out.threw /\ out.read = out.value)

\* A value holding a "*" written by setSealedCookie and read back by
\* getSealedCookie.
SealedRoundTripSeen ==
    /\ out.fn = "sealed"
    /\ out.viaSet
    /\ out.value = <<"a", "*", "b">>
    /\ out.secret = Secret2
    /\ out.read = out.value

\* <payload>.<44-character signature ending in "=">: a "." at position 1 or
\* later, the last of them 44 characters before the end, and "=" at the end.
SignedForm(value) ==
    /\ Len(value) >= 46
    /\ value[Len(value) - 44] = "."
    /\ \A i \in (Len(value) - 43)..Len(value) : value[i] # "."
    /\ value[Len(value)] = "="

\* The cookie has the signed form and its signature does not verify under
\* secret: the payload or the signature was changed, or the secret differs.
FailsVerification(cookie, secret) ==
    /\ cookie.kind = "signed"
    /\ SignedForm(cookie.value)
    /\ \/ cookie.form \in {"payload", "signature", "garbage"}
       \/ cookie.form = "genuine" /\ cookie.secret # secret

\* The cookie is as serializeSigned (or seal) wrote it under secret.
Genuine(cookie, kind, secret) ==
    /\ cookie.kind = kind
    /\ cookie.form = "genuine"
    /\ cookie.secret = secret
    /\ (kind = "signed" => cookie.payload # <<>>)

\* What a get gave for the name of sent[i]: the entry of the mapping, or the
\* value when the name was the key; Undefined when the mapping has no such
\* entry, or another name was the key.
Given(i) ==
    IF out.threw THEN Undefined
    ELSE IF out.key = Undefined
    THEN IF sent[i].name \in DOMAIN out.value THEN out.value[sent[i].name]
         ELSE Undefined
    ELSE IF out.key = sent[i].name THEN out.value
    ELSE Undefined

\* The get was asked for the name of sent[i]: by no key, or by that name.
Asked(i) == out.key \in {Undefined, sent[i].name}

\* Every cookie of the request is well-formed percent-encoding, so that
\* parse reads the header to its end.
WellEncoded == \A i \in DOMAIN sent : decodeURIComponent(sent[i].wire) # URIError

\* C4: a cookie of the signed form whose signature does not verify under
\* the secret is in the result of parseSigned / getSignedCookie with the
\* value false, and the genuine cookies of the header are given with their
\* payloads (in a header that parse reads to its end).
SignedFailureIsFalse ==
    (out.fn = "getSignedCookie" /\ WellEncoded) =>
        \A i \in DOMAIN sent :
            FailsVerification(sent[i], out.secret) =>
                /\ ~out.threw
                /\ Asked(i) => Given(i) = False
                /\ \A j \in DOMAIN sent :
                       (Genuine(sent[j], "signed", out.secret) /\ Asked(j))
                           => Given(j) = sent[j].payload

\* A changed signature is given as false beside a genuine cookie given
\* with its payload.
SignedFailureSeen ==
    /\ out.fn = "getSignedCookie"
    /\ out.key = Undefined
    /\ Len(sent) = 2
    /\ sent[1].form = "signature"
    /\ FailsVerification(sent[1], out.secret)
    /\ Genuine(sent[2], "signed", out.secret)
    /\ Given(1) = False
    /\ Given(2) = sent[2].payload

\* C5: in parseSigned a value that has not the signed form (no "." at
\* position 1 or later, or after the last "." no 44 characters ending in
\* "=") is not in the result mapping, and verifySignature is not called for
\* it.
SignedMalformedIsAbsent ==
    (out.fn = "getSignedCookie" /\ ~out.threw) =>
        \A i \in DOMAIN sent :
            ~SignedForm(sent[i].value) =>
                /\ sent[i].name \notin out.tried
                /\ out.key = Undefined => sent[i].name \notin DOMAIN out.value

\* A signature without its padding is left out beside a cookie that is
\* verified.
SignedMalformedSeen ==
    /\ out.fn = "getSignedCookie"
    /\ out.key = Undefined
    /\ Len(sent) = 2
    /\ sent[1].form = "unpadded"
    /\ sent[1].name \notin DOMAIN out.value
    /\ out.tried = {sent[2].name}

\* The value has exactly 5 fields between "*".
FiveFields(value) == Cardinality({i \in 1..Len(value) : value[i] = "*"}) = 4

\* The cookie is a sealed value of 5 fields that does not authenticate
\* under secret: a character of a field was changed, the ciphertext does
\* not decrypt, or the secret differs.
FailsUnsealing(cookie, secret) ==
    /\ cookie.kind = "sealed"
    /\ FiveFields(cookie.value)
    /\ \/ cookie.form \in {"byte", "cipher"}
       \/ cookie.form = "genuine" /\ cookie.secret # secret

\* C6: a sealed value of 5 fields read with another secret, or with a
\* character of any field changed, is given as false by parseSealed /
\* getSealedCookie, and the call does not throw (in a header that parse
\* reads to its end).
SealedFailureIsFalse ==
    (out.fn = "getSealedCookie" /\ WellEncoded) =>
        \A i \in DOMAIN sent :
            FailsUnsealing(sent[i], out.secret) =>
                /\ ~out.threw
                /\ Asked(i) => Given(i) = False

\* The last character of the sealed value changed, read under the secret
\* that sealed it.
SealedFailureSeen ==
    /\ out.fn = "getSealedCookie"
    /\ out.key = <<"c">>
    /\ Len(sent) = 1
    /\ sent[1].form = "byte"
    /\ out.secret = sent[1].secret
    /\ sent[1].value[Len(sent[1].value)] = "\""
    /\ out.tried = {<<"c">>}
    /\ out.value = False

\* C7 as the claim has it: a value that has not exactly 5 fields is not in
\* the result mapping of parseSealed.
SealedMalformedIsAbsent ==
    (out.fn = "getSealedCookie" /\ out.key = Undefined /\ ~out.threw) =>
        \A i \in DOMAIN sent :
            ~FiveFields(sent[i].value) => sent[i].name \notin DOMAIN out.value

\* C8: in parseSealed a value that holds no "*" is not in the result
\* mapping, and unseal is not called for it.
SealedWithoutStarIsAbsent ==
    out.fn = "getSealedCookie" =>
        \A i \in DOMAIN sent :
            ~includes(sent[i].value, "*") =>
                /\ sent[i].name \notin out.tried
                /\ (out.key = Undefined /\ ~out.threw)
                       => sent[i].name \notin DOMAIN out.value

\* A value without "*" is left out beside a sealed cookie that is unsealed.
SealedWithoutStarSeen ==
    /\ out.fn = "getSealedCookie"
    /\ out.key = Undefined
    /\ Len(sent) = 2
    /\ sent[1].kind = "sealed"
    /\ ~includes(sent[1].value, "*")
    /\ sent[1].name \notin DOMAIN out.value
    /\ out.tried = {sent[2].name}
    /\ Given(2) = sent[2].payload

\* C9 as the claim has it: with a key, getSignedCookie and getSealedCookie
\* return a string or false: they do not throw, and they return neither
\* undefined nor anything else.
KeyedGetGivesStringOrFalse ==
    (out.fn \in {"getSignedCookie", "getSealedCookie"} /\ out.key # Undefined)
        => (~out.threw /\ out.value \notin {Undefined, Inherited})

\* The entry a set or delete call is to append.
EntryOf(call) ==
    CASE call.fn = "setCookie" ->
             serialize(call.name, call.value, Spread(PathDefault, call.opt))
      [] call.fn = "deleteCookie" ->
             serialize(call.name, call.value,
                       Spread(Spread(PathDefault, call.opt), [maxAge |-> 0]))
      [] call.fn = "setSignedCookie" ->
             serializeSigned(call.name, call.value, call.secret,
                             Spread(PathDefault, call.opt))
      [] call.fn = "setSealedCookie" ->
             serializeSealed(call.name, call.value, call.secret,
                             Spread(PathDefault, call.opt), NoDraws)

\* C10: after any sequence of setCookie and deleteCookie calls the container
\* holds one entry for each call, in call order, each as its call wrote it.
EntriesInCallOrder ==
    /\ Len(headers.setCookie) = Len(calls)
    /\ \A i \in DOMAIN calls : headers.setCookie[i] = EntryOf(calls[i])

\* Two calls for one name, a set and a delete, left two entries.
EntriesInCallOrderSeen ==
    /\ Len(calls) = 2
    /\ calls[1].fn = "setCookie"
    /\ calls[2].fn = "deleteCookie"
    /\ calls[1].name = calls[2].name
    /\ Len(headers.setCookie) = 2
    /\ headers.setCookie[1] # headers.setCookie[2]

\* C11 as the claim has it: once every set call made on a container has
\* completed, the container holds one entry for each call in the order the
\* calls were made, also when an asynchronous call was started and the next
\* call made before it completed.
OverlappingCallsKeepOrder ==
    pending = {} =>
        /\ Len(headers.setCookie) = Len(calls)
        /\ \A i \in DOMAIN calls : headers.setCookie[i] = EntryOf(calls[i])

\* The name the prefix policy gives a cookie.
PhysicalName(name, prefix) ==
    CASE prefix = <<"s", "e", "c", "u", "r", "e">> ->
             <<"_", "_", "S", "e", "c", "u", "r", "e", "-">> \o name
      [] prefix = <<"h", "o", "s", "t">> ->
             <<"_", "_", "H", "o", "s", "t", "-">> \o name
      [] OTHER -> name

\* The attributes of a Set-Cookie entry: its pieces after the cookie pair.
Attributes(entry) ==
    LET pieces == split(entry, ";")
    IN  {SubSeq(pieces[i], 2, Len(pieces[i])) : i \in 2..Len(pieces)}

\* The name of an attribute: what stands before its "=".
AttributeName(attribute) == split(attribute, "=")[1]

\* The cookie name of a Set-Cookie entry.
EntryName(entry) == split(entry, "=")[1]

Looked == {i \in DOMAIN sent : sent[i].name = PhysicalName(out.key, out.prefix)}

AttributeOrder ==
    << [option |-> "maxAge", name |-> <<"M", "a", "x", "-", "A", "g", "e">>],
       [option |-> "domain", name |-> <<"D", "o", "m", "a", "i", "n">>],
       [option |-> "path", name |-> <<"P", "a", "t", "h">>],
       [option |-> "expires", name |-> <<"E", "x", "p", "i", "r", "e", "s">>],
       [option |-> "httpOnly", name |-> <<"H", "t", "t", "p", "O", "n", "l", "y">>],
       [option |-> "secure", name |-> <<"S", "e", "c", "u", "r", "e">>],
       [option |-> "sameSite", name |-> <<"S", "a", "m", "e", "S", "i", "t", "e">>],
       [option |-> "partitioned", name |-> <<"P", "a", "r", "t", "i", "t", "i", "o", "n", "e", "d">>] >>

\* An option is present when it is given with a value that says something:
\* a maxAge that is not negative, a text that is not empty, a flag that is
\* true, a date.
Present(opt, option) ==
    /\ option \in DOMAIN opt
    /\ CASE option = "maxAge" -> opt.maxAge >= 0
         [] option \in {"domain", "path", "sameSite"} -> opt[option] # <<>>
         [] option \in {"httpOnly", "secure", "partitioned"} -> opt[option]
         [] OTHER -> TRUE

\* What an attribute is written as; a maxAge in tenths is floored to whole
\* seconds.
AttributeText(opt, attribute) ==
    <<";", " ">> \o attribute.name \o
    CASE attribute.option = "maxAge" -> <<"=">> \o NumberToString(opt.maxAge \div 10)
      [] attribute.option = "expires" -> <<"=">> \o toUTCString(opt.expires)
      [] attribute.option \in {"domain", "path", "sameSite"} ->
             <<"=">> \o opt[attribute.option]
      [] OTHER -> <<>>

\* C14: serialize writes name=value and after it the attributes of exactly
\* the options that are present, in the order Max-Age, Domain, Path,
\* Expires, HttpOnly, Secure, SameSite, Partitioned; Max-Age only for a
\* maxAge that is not negative, and floored.
AttributesInFixedOrder ==
    out.fn = "serialize" =>
        out.text =
            out.name \o <<"=">> \o encodeURIComponent(out.value)
            \o Concat([i \in 1..Len(AttributeOrder) |->
                   IF Present(out.opt, AttributeOrder[i].option)
                   THEN AttributeText(out.opt, AttributeOrder[i])
                   ELSE <<>>])

\* All eight options were given, with a maxAge of 1.5 seconds, and the text
\* has the eight attributes in their order, with Max-Age=1.
AttributesInFixedOrderSeen ==
    /\ out.fn = "serialize"
    /\ Cardinality(DOMAIN out.opt) = 8
    /\ out.opt.maxAge = 15
    /\ out.text = Concat(<< <<"c", "=", "a", "%", "2", "0">>,
                       <<";", " ", "M", "a", "x", "-", "A", "g", "e", "=", "1">>,
                       <<";", " ", "D", "o", "m", "a", "i", "n", "=", "e", ".", "c">>,
                       <<";", " ", "P", "a", "t", "h", "=", "/", "a">>,
                       <<";", " ", "E", "x", "p", "i", "r", "e", "s", "=",
                          "S", "u", "n", ",", " ", "2", "4", " ", "D", "e", "c", " ", "2", "0", "0", "0", " ",
                          "1", "0", ":", "3", "0", ":", "5", "9", " ", "G", "M", "T">>,
                       <<";", " ", "H", "t", "t", "p", "O", "n", "l", "y">>,
                       <<";", " ", "S", "e", "c", "u", "r", "e">>,
                       <<";", " ", "S", "a", "m", "e", "S", "i", "t", "e", "=", "L", "a", "x">>,
                       <<";", " ", "P", "a", "r", "t", "i", "t", "i", "o", "n", "e", "d">> >>)

\* C15: the entry deleteCookie(headers, name, opt) appends is the entry
\* setCookie(headers, name, "", {...opt, maxAge: 0}) appends: the name with
\* an empty value, Max-Age=0 as its only Max-Age whatever maxAge the caller
\* gave, and c=; Max-Age=0; Path=/ for the name c and no options.
DeleteIsSetWithMaxAgeZero ==
    \A i \in DOMAIN calls :
        calls[i].fn = "deleteCookie" =>
            LET entry == headers.setCookie[i]
                name == calls[i].name
                opt == calls[i].opt
            IN  /\ entry = Last(setCookie(NewHeaders, name, <<>>,
                                          Spread(opt, [maxAge |-> 0])).setCookie)
                /\ split(entry, ";")[1] = name \o <<"=">>
                /\ \A a \in Attributes(entry) :
                       AttributeName(a) = <<"M", "a", "x", "-", "A", "g", "e">> => a = <<"M", "a", "x", "-", "A", "g", "e", "=", "0">>
                /\ <<"M", "a", "x", "-", "A", "g", "e", "=", "0">> \in Attributes(entry)
                /\ DOMAIN opt = {} => entry = name \o <<"=", ";", " ", "M", "a", "x", "-", "A", "g", "e", "=", "0", ";", " ", "P", "a", "t", "h", "=", "/">>

\* deleteCookie was called with a maxAge of 1.5 seconds, and after it
\* deleteCookie with no options.
DeleteIsSetWithMaxAgeZeroSeen ==
    /\ Len(calls) = 2
    /\ calls[1].fn = "deleteCookie"
    /\ "maxAge" \in DOMAIN calls[1].opt
    /\ calls[1].opt.maxAge = 15
    /\ calls[2].fn = "deleteCookie"
    /\ calls[2].name = <<"c">>
    /\ headers.setCookie[2] = <<"c", "=", ";", " ", "M", "a", "x", "-", "A", "g", "e", "=", "0", ";", " ", "P", "a", "t", "h", "=", "/">>

\* The cookies of the request that bear the name asked for.
Named == {i \in DOMAIN sent : sent[i].name = out.key}

\* C16 as the claim has it: getCookie with a key returns undefined when the
\* request has no Cookie header or no cookie of that name, and else the
\* value of the cookie, a string; getCookie without a key returns an empty
\* mapping when there is no Cookie header.  It does not throw.
KeyedGetCookieGivesStringOrUndefined ==
    out.fn = "getCookie" =>
        /\ ~out.threw
        /\ (out.key # Undefined /\ Named = {}) => out.value = Undefined
        /\ (out.key # Undefined /\ Named # {}) =>
               out.value = sent[CHOOSE i \in Named : \A j \in Named : j <= i].value
        /\ (out.key = Undefined /\ NoCookie(headers)) => out.value = EmptyObject

\* C17 as the claim has it: parse throws for no header, and returns the
\* mapping of the valid pairs whatever malformed pairs stand beside them
\* (each name that the filter lets through with the value of its last valid
\* pair).
ParseNeverThrows ==
    out.fn = "parse" =>
        /\ ~out.threw
        /\ \A i \in DOMAIN out.pairs :
               (out.pairs[i].kind = "valid" /\ out.name \in {Undefined, <<>>, out.pairs[i].name})
                   => out.pairs[i].name \in DOMAIN out.value

\* The valid pairs of the header that the name filter lets through.
ValidPairs ==
    {i \in DOMAIN out.pairs :
        /\ out.pairs[i].kind = "valid"
        /\ out.name \in {Undefined, <<>>, out.pairs[i].name}}

\* C18: parse maps each name that valid pairs of the header bear to the
\* value of the last of them, and no other name; the header may hold
\* malformed pairs beside them, but none whose value is not valid
\* percent-encoding (that pair is C17's).
LastValidPairWins ==
    (out.fn = "parse" /\ \A i \in DOMAIN out.pairs : out.pairs[i].kind # "encoding") =>
        /\ ~out.threw
        /\ DOMAIN out.value = {out.pairs[i].name : i \in ValidPairs}
        /\ \A i \in ValidPairs :
               (\A j \in ValidPairs : out.pairs[j].name = out.pairs[i].name => j <= i)
                   => out.value[out.pairs[i].name] = out.pairs[i].value

\* c=b; c=a; c=<e9> was parsed: two valid pairs of c and after them one
\* with a character no value has, and c is given the value of the second.
LastValidPairWinsSeen ==
    /\ out.fn = "parse"
    /\ Len(out.pairs) = 3
    /\ out.pairs[1].text = <<"c", "=", "b">>
    /\ out.pairs[2].text = <<"c", "=", "a">>
    /\ out.pairs[3].kind = "value"
    /\ ~out.threw
    /\ out.value = [n \in {<<"c">>} |-> <<"a">>]

\* The Path attribute a set call is to write: the caller's path, or "/".
PathOf(call) ==
    <<"P", "a", "t", "h", "=">> \o
    (IF "path" \in DOMAIN call.opt THEN call.opt.path ELSE <<"/">>)

\* The Path attributes of an entry.
PathsOf(entry) ==
    {a \in Attributes(entry) : AttributeName(a) = <<"P", "a", "t", "h">>}

\* C19: every entry that setCookie, setSignedCookie or setSealedCookie
\* appended has one Path attribute; for each name, the entries with Path=/
\* are as many as the completed calls that gave no path, and the entries
\* with the path of a caller as many as the completed calls that gave it.
PathDefaultsToRoot ==
    /\ \A k \in DOMAIN headers.setCookie :
           Cardinality(PathsOf(headers.setCookie[k])) = 1
    /\ \A name \in WriteNames, path \in {<<"/">>, <<"/", "a">>} :
           Cardinality({k \in DOMAIN headers.setCookie :
                           /\ EntryName(headers.setCookie[k]) = name
                           /\ PathsOf(headers.setCookie[k])
                                  = {<<"P", "a", "t", "h", "=">> \o path}})
           = Cardinality({i \in DOMAIN calls \ pending :
                             /\ calls[i].name = name
                             /\ PathOf(calls[i])
                                    = <<"P", "a", "t", "h", "=">> \o path})

\* A setSealedCookie without a path and a setSignedCookie with the path /a
\* have completed, the signed one first.
PathDefaultsToRootSeen ==
    /\ Len(calls) = 2
    /\ pending = {}
    /\ calls[1].fn = "setSealedCookie"
    /\ DOMAIN calls[1].opt = {}
    /\ calls[2].fn = "setSignedCookie"
    /\ DOMAIN calls[2].opt = {"path"}
    /\ PathsOf(headers.setCookie[1]) = {<<"P", "a", "t", "h", "=", "/", "a">>}
    /\ PathsOf(headers.setCookie[2]) = {<<"P", "a", "t", "h", "=", "/">>}

\* The string seal returned in a sealed round trip: what the cookie pair
\* holds after the name and "=" (encodeURIComponent leaves it as it is).
Sealed == substringFrom(out.text, Len(out.name) + 1)

\* C20: the string seal returns has four "*", so five fields none of which
\* holds a "*": the encryption salt, the IV, the ciphertext (the third
\* decrypts to the value under the key of the first and the IV of the
\* second), the integrity salt and the digest, which is the HMAC, under the
\* key of the integrity salt, of the first three fields joined by "*".
SealHasFiveFields ==
    out.fn = "sealed" =>
        /\ FiveFields(Sealed)
        /\ With(split(Sealed, "*"), LAMBDA fields :
               /\ Len(fields) = 5
               /\ \A i \in 1..5 : ~includes(fields[i], "*")
               /\ fields[5] =
                      hmacWithPassword(out.secret, Spread(integrity, [salt |-> fields[4]]),
                                       Join(SubSeq(fields, 1, 3), <<"*">>),
                                       [salt |-> 0, iv |-> 0]).digest
               /\ decrypt(out.secret,
                          Spread(encryption,
                                 [salt |-> fields[1],
                                  iv |-> base64urlDecode(fields[2]).bytes]),
                          base64urlDecode(fields[3]).bytes,
                          [salt |-> 0, iv |-> 0])
                      = Returned(out.value))

\* A value that itself holds a "*" was sealed.
SealHasFiveFieldsSeen ==
    /\ out.fn = "sealed"
    /\ ~out.viaSet
    /\ includes(out.value, "*")
    /\ Len(split(Sealed, "*")) = 5

\* Whether s holds the step.
Took(s, step) == \E i \in DOMAIN s : s[i] = step

\* The salt of the key of the mac of an unseal call: the fourth field, or
\* the draw generateKey makes for an empty one.
MacSaltOf(call) ==
    IF call.parts[4] # <<>> THEN call.parts[4]
    ELSE HexString(randomBits(integrity.saltBits, call.first))

\* An unseal call has taken its steps in the order of the code; the mac it
\* made is the mac of the first three fields under the salt option of the
\* fourth; and it went on to decode and decrypt only with five fields and
\* a mac equal to the fifth.
ChecksInOrder(call) ==
    /\ \E n \in 1..4 : call.steps = SubSeq(<<"split", "hmacWithPassword",
                                              "base64urlDecode", "decrypt">>, 1, n)
    /\ Took(call.steps, "hmacWithPassword") =>
           /\ Len(call.parts) = 5
           /\ call.macOptions.salt = call.parts[4]
           /\ call.digest
                = base64urlEncode(HmacSha256(
                      pbkdf2(call.password, MacSaltOf(call), 1, 32),
                      stringToBuffer(Join(SubSeq(call.parts, 1, 3), <<"*">>))))
    /\ (call.at = "decrypt" \/ Took(call.steps, "base64urlDecode")
                            \/ Took(call.steps, "decrypt")) =>
           /\ Took(call.steps, "hmacWithPassword")
           /\ call.digest = call.parts[5]

\* C21: unseal checks the number of fields first, then the mac of fields 1
\* to 3 under the salt of field 4, and derives the decryption key and
\* decrypts only after the mac has matched: no unseal call, finished or at
\* an await, has come to decrypt with a number of fields other than five
\* or with a mac that differs from field 5.
UnsealChecksInOrder ==
    /\ out.fn = "unseal" => ChecksInOrder(out)
    /\ \A i \in DOMAIN finished :
           finished[i].fn = "unseal" => ChecksInOrder(finished[i])

\* Two unseal calls have finished: the first was thrown out at its mac
\* before any decryption, the second passed the count and the mac and
\* was decrypted.
UnsealChecksInOrderSeen ==
    /\ Len(finished) = 2
    /\ finished[1].fn = "unseal"
    /\ finished[1].steps = <<"split", "hmacWithPassword">>
    /\ finished[1].at = "thrown"
    /\ finished[1].digest # finished[1].parts[5]
    /\ finished[2].fn = "unseal"
    /\ finished[2].at = "returned"
    /\ Took(finished[2].steps, "decrypt")
    /\ finished[2].digest = finished[2].parts[5]

\* The seal calls that have finished, by their place in finished.
Seals == {i \in DOMAIN finished : finished[i].fn = "seal"}

\* The fields of the sealed string that the seal call at place i gave.
SealedFieldsOf(i) == split(finished[i].result.value, "*")

\* C22: each seal call draws an encryption salt, an IV and an integrity
\* salt of its own: the salts and the IV of its sealed string are the three
\* draws the call made, the integrity salt is not the encryption salt, no
\* salt or IV of one call is a salt or IV of another, and two seal calls,
\* also of the same text under the same password, give different strings.
\* A draw of crypto.getRandomValues is taken never to repeat an earlier one.
SealDrawsAreFresh ==
    \A i \in Seals :
        With(SealedFieldsOf(i), LAMBDA f :
            /\ f[1] = HexString(randomBits(encryption.saltBits, finished[i].first))
            /\ f[2] = base64urlEncode(randomBits(algorithms.aes256cbc.ivBits,
                                                 finished[i].first + 1))
            /\ f[4] = HexString(randomBits(integrity.saltBits, finished[i].first + 2))
            /\ f[1] # f[4]
            /\ \A j \in Seals \ {i} :
                   With(SealedFieldsOf(j), LAMBDA g :
                       /\ {f[1], f[4]} \cap {g[1], g[4]} = {}
                       /\ f[2] # g[2]
                       /\ finished[i].result.value # finished[j].result.value))

\* Two seal calls of the same text under the same password have finished.
SealDrawsAreFreshSeen ==
    /\ Len(finished) = 2
    /\ Seals = {1, 2}
    /\ finished[1].value = <<"s">> /\ finished[2].value = <<"s">>
    /\ finished[1].password = Secret1 /\ finished[2].password = Secret1

\* C23: fixedTimeComparison(a, b) returns true exactly when a and b are
\* the same string, so false whenever their lengths differ, and whatever b
\* is its loop takes as many turns as a has characters: called on its own,
\* and called by unseal on the mac it made and the fifth field.
FixedTimeComparisonIsEquality ==
    /\ out.fn = "fixedTimeComparison" =>
           /\ out.result = (out.a = out.b)
           /\ Len(out.a) # Len(out.b) => ~out.result
           /\ out.result = fixedTimeComparison(out.a, out.b)
           /\ out.turns = Len(out.a)
    /\ \A i \in DOMAIN finished :
           (finished[i].fn = "unseal" /\ Took(finished[i].steps, "hmacWithPassword")) =>
               /\ finished[i].turns = Len(finished[i].digest)
               /\ (finished[i].at = "thrown" /\ Len(finished[i].steps) = 2)
                      = (finished[i].digest # finished[i].parts[5])

\* The comparison of two strings of two characters that differ at the
\* first place has taken two turns and returned false.
FixedTimeComparisonIsEqualitySeen ==
    /\ out.fn = "fixedTimeComparison"
    /\ out.a = <<"a", "b">>
    /\ out.b = <<"b", "b">>
    /\ ~out.result
    /\ out.turns = 2

\* The name a pair of a Cookie header bears: the text before its first
\* "=", without the white space around it.
PairName(text) == trim(SubSeq(text, 1, indexOf(text, "=")))

\* C24: every key of the mapping that parse returns is the trimmed text
\* before the first "=" of a pair of the header that has an "=", and is a
\* token of validCookieNameRegEx; and when parse is given a name, the
\* mapping has no key but that name.  (The empty string given as the name
\* is no filter.)
ParseKeysAreNamesOfPairs ==
    (out.fn = "parse" /\ ~out.threw) =>
        \A key \in DOMAIN out.value :
            /\ validCookieNameRegEx(key)
            /\ \E i \in DOMAIN out.pairs :
                   /\ includes(out.pairs[i].text, "=")
                   /\ key = PairName(out.pairs[i].text)
            /\ out.name \notin {Undefined, <<>>} => key = out.name

\* c; c=a; d=%41 was parsed for the name d: the pair without "=" and the
\* pair of another name gave no key, and the mapping holds d alone.
ParseKeysAreNamesOfPairsSeen ==
    /\ out.fn = "parse"
    /\ Len(out.pairs) = 3
    /\ out.pairs[1].text = <<"c">>
    /\ out.pairs[2].text = <<"c", "=", "a">>
    /\ out.pairs[3].text = <<"d", "=", "%", "4", "1">>
    /\ out.name = <<"d">>
    /\ ~out.threw
    /\ DOMAIN out.value = {<<"d">>}

\* The value a pair of a Cookie header bears: the text after its first
\* "=", without the white space around it.
PairValue(text) == trim(substringFrom(text, indexOf(text, "=") + 1))

\* The value without the quotes around it, when it stands between a
\* leading double quote and another, trailing one.
Unquoted(value) ==
    IF Len(value) >= 2 /\ value[1] = "\"" /\ value[Len(value)] = "\""
    THEN SubSeq(value, 2, Len(value) - 1)
    ELSE value

\* The value has only characters of ASCII 0x20 to 0x7E, and of them no
\* double quote, semicolon or backslash.
AcceptedValue(value) ==
    \A i \in 1..Len(value) :
        /\ Ord(value[i]) \in 32..126
        /\ value[i] \notin {"\"", ";", "\\"}

\* The pairs of the header that parse is to take a value from: those with
\* an "=", a name that is a token and that the filter lets through, and a
\* value that is accepted once its quotes are stripped.
AcceptedPairs ==
    {i \in DOMAIN out.pairs :
        /\ includes(out.pairs[i].text, "=")
        /\ validCookieNameRegEx(PairName(out.pairs[i].text))
        /\ out.name \in {Undefined, <<>>, PairName(out.pairs[i].text)}
        /\ AcceptedValue(Unquoted(PairValue(out.pairs[i].text)))}

\* C25 as the claim has it: parse strips the quotes of a trimmed value
\* exactly when it stands between a leading double quote and a distinct
\* trailing one; a value that then has a character outside ASCII 0x20 to
\* 0x7E, a double quote, a semicolon or a backslash is dropped and gives its
\* name no entry, and every other value, with spaces and commas, is taken:
\* the mapping holds the names of the accepted pairs, each with the decoded
\* value of the last of them.
QuotesStrippedWhenPaired ==
    (out.fn = "parse" /\ ~out.threw) =>
        /\ DOMAIN out.value = {PairName(out.pairs[i].text) : i \in AcceptedPairs}
        /\ \A i \in AcceptedPairs :
               (\A j \in AcceptedPairs :
                    PairName(out.pairs[j].text) = PairName(out.pairs[i].text) => j <= i)
                   => out.value[PairName(out.pairs[i].text)]
                        = decodeURIComponent(Unquoted(PairValue(out.pairs[i].text)))

\* What a call of seal or unseal is to give, from its own arguments and
\* the draws it made itself.
OwnResult(call) ==
    IF call.fn = "seal"
    THEN Returned(seal(call.value, call.password,
                       [encSalt |-> call.first, iv |-> call.first + 1,
                        macSalt |-> call.first + 2]))
    ELSE unseal(call.sealed, call.password,
                [macSalt |-> call.first,
                 encSalt |-> call.first
                             + (IF Len(call.parts) = 5 /\ call.parts[4] = <<>>
                                THEN 1 ELSE 0),
                 iv |-> 0])

\* C26: the codec keeps no state.  After any calls of seal and unseal, those
\* that throw among them, and a call of serialize, parse, serializeSigned or
\* parseSigned after them, the encryption object of the module is still
\* aes-256-cbc with 256 salt bits and 1 iteration and the integrity object
\* sha256 with 256 salt bits and 1 iteration; and every call that finishes
\* gives what its own arguments and its own draws give, whatever calls
\* went before it, and leaves the calls before it as they finished.
CodecIsStateless ==
    /\ [](defaults = [encryption |-> [saltBits |-> 256, algorithm |-> "aes-256-cbc",
                                      iterations |-> 1],
                      integrity |-> [saltBits |-> 256, algorithm |-> "sha256",
                                     iterations |-> 1]])
    /\ [][finished' # finished =>
              /\ SubSeq(finished', 1, Len(finished)) = finished
              /\ Len(finished') = Len(finished) + 1
              /\ finished'[Len(finished')].result
                   = OwnResult(finished'[Len(finished')])]_vars

\* An unseal that returned its text, with the key it derived from the salt
\* and the IV of the value, and after it an unseal of a value under another
\* password, thrown out at its mac.
CodecIsStatelessSeen ==
    /\ Len(finished) = 2
    /\ finished[1].fn = "unseal"
    /\ finished[1].at = "returned"
    /\ finished[1].decryptOptions.salt = finished[1].parts[1]
    /\ finished[2].fn = "unseal"
    /\ finished[2].at = "thrown"
    /\ finished[2].password # finished[1].password
    /\ finished[2].steps = <<"split", "hmacWithPassword">>

\* The unseal calls that have finished, by their place in finished.
Unseals == {i \in DOMAIN finished : finished[i].fn = "unseal"}

\* What the decryption of an unseal call gives under the key derived from
\* the first field of its value.
DecryptedUnderFirstField(call) ==
    With(AesCbcDecrypt(pbkdf2(call.password, call.parts[1], 1, 32),
                       base64urlDecode(call.parts[2]).bytes,
                       base64urlDecode(call.parts[3]).bytes), LAMBDA decrypted :
        IF ~decrypted.ok
        THEN Thrown(<<"O", "p", "e", "r", "a", "t", "i", "o", "n">>)
        ELSE Returned(bufferToString(decrypted.bytes)))

\* C27 as the claim has it: unseal draws no randomness and gives the same
\* outcome whenever it is called on the same value and password; for every
\* value, those with an empty first or fourth field too, the key of the mac
\* is derived from the fourth field and the key of the decryption from the
\* first.
UnsealIsDeterministic ==
    \A i \in Unseals :
        /\ Took(finished[i].steps, "hmacWithPassword") =>
               finished[i].digest
                 = base64urlEncode(HmacSha256(
                       pbkdf2(finished[i].password, finished[i].parts[4], 1, 32),
                       stringToBuffer(Join(SubSeq(finished[i].parts, 1, 3), <<"*">>))))
        /\ Took(finished[i].steps, "decrypt") =>
               finished[i].result = DecryptedUnderFirstField(finished[i])
        /\ (i + 1) \in DOMAIN finished => finished[i + 1].first = finished[i].first
        /\ (i = Len(finished) /\ out = Idle) => drawn = finished[i].first
        /\ \A j \in Unseals :
               (finished[j].sealed = finished[i].sealed
                /\ finished[j].password = finished[i].password)
                   => finished[j].result = finished[i].result

\* The calls that have completed and appended: those not suspended, but for
\* the signed sets that the key import has failed.
Appended ==
    {i \in DOMAIN calls \ pending :
        ~(calls[i].fn = "setSignedCookie" /\ ImportKeyRejects(calls[i].secret))}

\* The step is the return of a synchronous set or delete, or the
\* completion of a suspended set that has not failed.
Completes ==
    \/ /\ Len(calls') = Len(calls) + 1
       /\ calls'[Len(calls')].fn \in {"setCookie", "deleteCookie"}
    \/ \E i \in pending \ pending' :
           ~(calls[i].fn = "setSignedCookie" /\ ImportKeyRejects(calls[i].secret))

\* C28: the container is append-only.  It holds as many entries as calls
\* have completed without failing, so n entries once n overlapping sets
\* have all completed; the return of a set or delete, and the completion
\* of a suspended set, puts one entry after the entries there were and
\* leaves those as they were; and every other step of the facade, the
\* suspension of a set at its await, a set that fails, and a get, leaves
\* the container as it was.  (The step that is no call of the facade, the
\* arrival of the request, gives the container its Cookie header.)
ContainerIsAppendOnly ==
    /\ [](Len(headers.setCookie) = Cardinality(Appended))
    /\ [][IF sent' # sent
          THEN headers'.setCookie = headers.setCookie
          ELSE IF Completes
          THEN /\ headers'.cookie = headers.cookie
               /\ Len(headers'.setCookie) = Len(headers.setCookie) + 1
               /\ SubSeq(headers'.setCookie, 1, Len(headers.setCookie))
                    = headers.setCookie
          ELSE headers' = headers]_vars

\* A signed set and a sealed set were started one after the other and both
\* have completed, the sealed one first: the container holds their two
\* entries, and getCookie has read the cookie of the request from it.
ContainerIsAppendOnlySeen ==
    /\ pending = {}
    /\ Len(calls) = 2
    /\ calls[1].fn = "setSignedCookie"
    /\ calls[2].fn = "setSealedCookie"
    /\ Len(headers.setCookie) = 2
    /\ headers.setCookie[1] = EntryOf(calls[2])
    /\ headers.setCookie[2] = EntryOf(calls[1])
    /\ out.fn = "getCookie"
    /\ out.key = <<"c">>
    /\ out.value = <<"v">>
====
